---- MODULE Spec2Model ----
(***************************************************************************)
(* A model of three subsystems of the speedb storage engine:               *)
(*   - the Write Buffer Manager (WriteBufferManager, src/unnamed/part_000) *)
(*   - the HashSpd memtable (plugin/speedb/memtable/hash_spd_rep.cc)       *)
(*   - the hybrid compaction picker (src/unnamed/part_002)                 *)
(* Each subsystem has its own variables, its own next-state relation and   *)
(* its own specification; a specification leaves the variables of the      *)
(* other subsystems unchanged.                                             *)
(***************************************************************************)
EXTENDS Integers, Naturals, Sequences, FiniteSets, TLC

(***************************************************************************)
(* Bounds of the model.                                                    *)
(***************************************************************************)
\* size_t arithmetic is modular; the model keeps the wrap-around with a
\* small modulus in place of 2^64.
SizeTMod == 16
\* memory chunks (memtables) that callers reserve and free; chunk i holds
\* i bytes.
NItems == 2
\* writer threads, each owning one StallInterface handle.
NWriters == 2
\* the buffer_size an enabled WBM is constructed with.
BufferSize == 2
\* how often the freeing of one chunk may be aborted.
MaxAborts == 1
\* the distinct keys the callers of the memtable insert
NKeys == 2
\* the inserts into the memtable, one thread each
NInserts == 4
\* the inserts that run together with the readers and the sort thread
NThreadInserts == 3
\* the vectors of the container the merges start from, and how many of
\* them, the last one apart, are over the merge threshold
MergeLen == 10
MaxBig == 1
\* the inserts that run together with the merges
NMergeInserts == 2
\* the threads that call Contains and Get, and the inserts and the
\* constructions of iterators that run together with them
NLookups == 1
NLockInserts == 2
NLockIters == 1
\* the largest bucket_count_ a HashSpdRep is created with
MaxBuckets == 2
\* switch_spdb_vector_limit_: the capacity of one SpdbVector
VectorLimit == 2
\* the physical levels of one hyper level
LevelsInHyper == 4
\* the largest curNumOfHyperLevels_ the database grows to
MaxHyperLevels == 2
\* the compactions the worker pool runs at once
MaxRunning == 2
\* the SetBufferSize calls made at runtime
MaxResizes == 2
\* the readers of the memtable, one iterator each
NIters == 2
\* size_t arithmetic of the pinning policy: capacity * percent / 100 needs a
\* modulus above 100, so the policy has its own stand-in for 2^64
PinSizeTMod == 1024
\* the largest capacity a ScopedPinningPolicy is configured with
MaxCapacity == 12

\* flush initiation: the option max_num_parallel_flushes, the initiators
\* registered, the flushes that run at once and the step between thresholds
max_num_parallel_flushes == 2
MaxInitiators == 2
MaxRunningFlushes == 2
MaxFlushStep == 2

\* the most files PickCompaction finds in level 0
MaxL0Files == 5
\* SelectNBuffers: the most non-empty source levels of one selection, and
\* the most files it selects from one level
MaxSourceLevels == 3
MaxSelectedFiles == 2

\* the picker's compile-time limits of compaction_picker_hybrid.h, scaled:
\* the merge widths a hyper level may have and the hyper levels the arrays
\* multiplier_, sizeToCompact_ and prevSubCompaction_ are sized for
s_minLevelsToMerge == 2
s_maxLevelsToMerge == 3
s_maxNumHyperLevels == 3
\* the stand-in for 2^64 of the size_t products of InitCf
SizeToCompactMod == 4096
\* the largest write_buffer_size a column family is configured with
MaxWriteBufferSize == 2
\* the threads that call Add on one SpdbVector, one call each
NAdders == 4

Items == 1..NItems
Handles == 1..NWriters
Mem(i) == i

VARIABLES
  \* ---- WriteBufferManager: configuration
  buffer_size_,         \* std::atomic<size_t> buffer_size_
  mutable_limit_,       \* std::atomic<size_t> mutable_limit_
  allow_stall_,         \* bool allow_stall_
  initiate_flushes_,    \* const bool initiate_flushes_
  cost_to_cache_,       \* cache_res_mgr_ != nullptr
  \* ---- WriteBufferManager: counters
  memory_used_,
  memory_inactive_,
  memory_being_freed_,
  \* ---- WriteBufferManager: stall queue
  queue_,               \* std::list<StallInterface*> queue_
  stall_active_,        \* std::atomic<bool> stall_active_
  signals,              \* per handle: number of Signal() calls received
  \* ---- callers of the WriteBufferManager
  itemPc,               \* per chunk: where its owner is in the life cycle
  aborts,               \* per chunk: number of FreeMemAborted calls
  rebegun,              \* per chunk: FreeMemBegin was called after an abort
                        \*   without a new ScheduleFreeMem
  writerPc              \* per writer: idle / observed / blocked / returned

VARIABLES
  \* ---- the thread that calls SetBufferSize
  setPc,                \* where the call is
  new_size,             \* SetBufferSize: size_t new_size
  was_enabled,          \* SetBufferSize: auto was_enabled
  setCalls,             \* the SetBufferSize calls started so far
  \* ---- the write thread that calls ShouldFlush
  flushPc,              \* where the call is
  local_limit,          \* ShouldFlush: the value loaded from mutable_limit_
  local_size,           \* ShouldFlush: size_t local_size
  flushRes              \* what ShouldFlush returned: "none", "true", "false"

resizeVars == << setPc, new_size, was_enabled, setCalls, flushPc,
                 local_limit, local_size, flushRes >>

wbmVars == << buffer_size_, mutable_limit_, allow_stall_, initiate_flushes_,
              cost_to_cache_, memory_used_, memory_inactive_,
              memory_being_freed_, queue_, stall_active_, signals, itemPc,
              aborts, rebegun, writerPc, resizeVars >>

VARIABLES
  \* ---- HashSpdRep: configuration
  n_buckets,            \* spdb_hash_table_.buckets_.size() (bucket_size)
  \* ---- SpdbHashTable
  items_,               \* per bucket: BucketHeader::items_ (0 is nullptr)
  nextOf,               \* per key handle: SpdbKeyHandle::next (0 is nullptr)
  \* ---- SpdbVectorContainer
  spdb_vectors_,        \* std::list<SpdbVectorPtr>: each vector is a record
                        \*   [items, n_elements_, sorted_]
  num_elements_,        \* std::atomic<size_t> num_elements_
  immutable_,           \* std::atomic<bool> immutable_
  rwReaders,            \* spdb_vectors_rwlock_: the inserts holding it shared
  rwWriter,             \* spdb_vectors_rwlock_: the insert holding it
                        \*   exclusively (0 is nobody)
  \* ---- the threads that call InsertKey: one insert each
  opKey,                \* the key in the handle (0 before Allocate)
  opPc,                 \* where the insert is
  opLoc,                \* BucketHeader::Add: SpdbKeyHandle** loc
  opRes,                \* what InsertKey returned: "none", "true", "false"
  \* ---- the reader that iterates the read-only memtable
  iterOut               \* the keys SeekToFirst/Next returned; << 0 >> before

VARIABLES
  \* ---- SpdbVectorContainer: the vectors and the sort thread
  vectors_created,      \* the SpdbVector objects constructed so far; the
                        \*   n-th one is known by the number n
  erased,               \* the vectors a merge erased from spdb_vectors_,
                        \*   kept alive by the iterators that hold them
  sortPc,               \* where SortThread is
  sort_iter_anchor,     \* SortThread: sort_iter_anchor (a vector's number)
  last,                 \* SortThread: last (a vector's number)
  \* ---- the owner of the memtable
  markPc,               \* where the MarkReadOnly call is
  lifePc,               \* "alive", in ~HashSpdRep, joining, "destroyed"
  \* ---- the readers that construct an iterator each
  iterPc,               \* where the reader is
  iterImmutable,        \* InitIterator: bool immutable
  iter_anchor,          \* the vectors the iterator holds, by number
  iterAppended,         \* InitIterator pushed a new vector
  iterStarted,          \* the keys whose InsertKey had been called when
                        \*   the construction returned
  iterSnapshot,         \* the keys in the held vectors at that time
  iterKeys              \* the keys SeekToFirst/Next returned; << 0 >> before

threadVars == << vectors_created, erased, sortPc, sort_iter_anchor, last,
                 markPc, lifePc, iterPc, iterImmutable, iter_anchor,
                 iterAppended, iterStarted, iterSnapshot, iterKeys >>

memVars == << n_buckets, items_, nextOf, spdb_vectors_, num_elements_,
              immutable_, rwReaders, rwWriter, opKey, opPc, opLoc, opRes,
              iterOut, threadVars >>

VARIABLES
  \* ---- VersionStorageInfo, as the picker reads it
  levelNonEmpty,            \* per level: !vstorage->LevelFiles(level).empty()
  \* ---- CompactionPicker
  compactions_in_progress_, \* the registered compactions, oldest first
  \* ---- HybridCompactionPicker
  curNumOfHyperLevels_,     \* uint curNumOfHyperLevels_
  prevSubCompaction_,       \* per hyper level: [outputLevel, lastKeyEmpty]
  \* ---- a call of NeedsCompaction, made with the DB mutex held
  needsPc,                  \* "idle" or "returned"
  needsIn,                  \* what the call read of file counts and sizes
  needsRet                  \* the value it returned

needsVars == << needsPc, needsIn, needsRet >>

pickerVars == << levelNonEmpty, compactions_in_progress_,
                 curNumOfHyperLevels_, prevSubCompaction_, needsVars >>

VARIABLES
  \* ---- ScopedPinningPolicy
  options_,                 \* ScopedPinningOptions options_
  pinPc,                    \* a call of CheckPin: "idle" or "returned"
  pinArgs,                  \* its arguments
  pinRet                    \* the value it returned

policyVars == << options_, pinPc, pinArgs, pinRet >>

VARIABLES
  \* ---- AdaptiveTableFactory
  table_factory_to_write_,
  block_based_table_factory_,
  plain_table_factory_,
  cuckoo_table_factory_,
  \* ---- a call of NewTableReader or NewTableBuilder
  tablePc,                  \* "idle" or "returned"
  tableArgs,                \* the call and what it reads
  factoryCalls,             \* the calls made to the wrapped factories
  tableRet                  \* the Status or TableBuilder it returned

tableVars == << table_factory_to_write_, block_based_table_factory_,
                plain_table_factory_, cuckoo_table_factory_,
                tablePc, tableArgs, factoryCalls, tableRet >>

collabVars == << policyVars, tableVars >>

VARIABLES
  \* ---- SpdbHashTable: the MutexLock of each call
  opMutex,              \* per insert: the mutex its MutexLock holds (-1 is
                        \*   none)
  \* ---- the threads that call Contains and Get
  lkPc,                 \* where the lookup is
  lkKey,                \* the key it looks up
  lkMutex,              \* the mutex its MutexLock holds (-1 is none)
  lkIter                \* SpdbHashTable::Get: iter (0 is nullptr)

lookupVars == << lkPc, lkKey, lkMutex, lkIter >>

lockVars == << opMutex, lookupVars >>

VARIABLES
  \* ---- WriteBufferManager: flush initiation
  num_initiators_,                    \* flush_initiators_.size()
  next_candidate_initiator_idx_,      \* the rotating cursor
  num_flushes_to_initiate_,           \* std::atomic<size_t>
  num_running_flushes_,               \* std::atomic<size_t>
  additional_flush_step_size_,        \* size_t
  additional_flush_initiation_size_,  \* std::atomic<size_t>
  new_flushes_wakeup_,                \* bool, under flushes_mu_
  \* ---- the flush initiation thread
  initPc,               \* "wait" on flushes_wakeup_cv_ or about to "call"
  calls,                \* the initiators called for the pending flush at
                        \*   hand, in the order of the calls
  was_flush_initiated,  \* what the last callback returned
  \* ---- a caller that reevaluates the need for more flushes
  evalPc,               \* per chunk: where its caller is in the reevaluation
  new_memory_used,      \* per chunk: the value of used its call produced
  curr_memory_used,     \* the argument of the last evaluation
  loaded_being_freed    \* memory_being_freed_ as the last evaluation read it

counterVars == << num_flushes_to_initiate_, num_running_flushes_ >>
thresholdVars == << num_initiators_, additional_flush_step_size_,
                    additional_flush_initiation_size_ >>
threadInitVars == << next_candidate_initiator_idx_, initPc, calls,
                     was_flush_initiated >>
evalVars == << curr_memory_used, loaded_being_freed >>
callerVars == << evalPc, new_memory_used >>
initiationVars == << counterVars, thresholdVars, threadInitVars, evalVars,
                     callerVars, new_flushes_wakeup_ >>

VARIABLES
  \* ---- HybridCompactionPicker: what InitCf reads and sets
  mutable_cf_options,       \* min_merge_width, write_buffer_size and
                            \* level0_file_num_compaction_trigger
  num_levels,               \* vstorage->num_levels()
  maxNumHyperLevels_,       \* uint maxNumHyperLevels_
  multiplier_,              \* size_t multiplier_[s_maxNumHyperLevels + 1]
  sizeToCompact_,           \* size_t sizeToCompact_[s_maxNumHyperLevels + 1]
  level0_compaction_trigger_

optionVars == << mutable_cf_options, num_levels >>
layoutVars == << maxNumHyperLevels_, multiplier_, sizeToCompact_,
                 level0_compaction_trigger_ >>
cfVars == << optionVars, layoutVars >>

VARIABLES
  \* ---- one SpdbVector and the threads that call Add on it
  vec,                      \* the vector: [id, items, n_elements_, sorted_]
  vecBack,                  \* is it the back of the container's list
  addPc,                    \* per thread: "idle", "fetched" or "returned"
  addKey,                   \* the key of its Add
  addLocation,              \* const size_t location
  addRet                    \* what its Add returned

slotVars == << vec, vecBack, addPc, addKey, addLocation, addRet >>

\* one PickCompaction call as PickLevel0Compaction sees it: the size of
\* LevelFiles(0) it read and the size of inputs[0].files of the level 0
\* compaction it returned (0 when it returned none)
VARIABLES l0Files, l0Inputs
level0Vars == << l0Files, l0Inputs >>

\* one SelectNBuffers call from "trivial move ?" on: the vector inputs as the
\* selection left it, the vector it hands back, and where the call is
VARIABLES selInputs, selOut, selPc
selectVars == << selInputs, selOut, selPc >>

vars == << wbmVars, memVars, pickerVars, collabVars, lockVars,
           initiationVars, cfVars, slotVars, level0Vars, selectVars >>

(***************************************************************************)
(* size_t arithmetic.                                                      *)
(***************************************************************************)
WrapAdd(a, b) == (a + b) % SizeTMod
WrapSub(a, b) == (a - b + SizeTMod) % SizeTMod

(***************************************************************************)
(* WriteBufferManager: the inline members of the header.                   *)
(***************************************************************************)
enabled == buffer_size_ > 0

cost_to_cache == cost_to_cache_

memory_usage == memory_used_

mutable_memtable_memory_usage ==
  LET total == memory_usage
      inactive == memory_inactive_
  IN  IF inactive >= total THEN 0 ELSE total - inactive

IsStallActive == stall_active_

IsStallThresholdExceeded == memory_usage >= buffer_size_

ShouldFlush ==
  IF (initiate_flushes_ = FALSE) /\ enabled
    THEN \/ mutable_memtable_memory_usage > mutable_limit_
         \/ /\ memory_usage >= buffer_size_
            /\ mutable_memtable_memory_usage >= buffer_size_ \div 2
    ELSE FALSE

ShouldStall_NoEnabledCheck ==
  IF ~allow_stall_ THEN FALSE
  ELSE IsStallActive \/ IsStallThresholdExceeded

ShouldStall ==
  IF ~allow_stall_ \/ ~enabled THEN FALSE
  ELSE IsStallActive \/ IsStallThresholdExceeded

(***************************************************************************)
(* WriteBufferManager: flush initiation, the inline members of the header. *)
(* The subtraction is one of size_t.                                       *)
(***************************************************************************)
ShouldInitiateAnotherFlushMemOnly(used) ==
  /\ WrapSub(used, memory_being_freed_) >= additional_flush_step_size_ \div 2
  /\ used >= additional_flush_initiation_size_

ShouldInitiateAnotherFlush(used) ==
  /\ num_running_flushes_ + num_flushes_to_initiate_
       < max_num_parallel_flushes
  /\ ShouldInitiateAnotherFlushMemOnly(used)

\* the same test once the caller has set num_running_flushes_ to 'running'
ShouldInitiateAnotherFlushWith(running, used) ==
  /\ running + num_flushes_to_initiate_ < max_num_parallel_flushes
  /\ ShouldInitiateAnotherFlushMemOnly(used)

CalcNextCandidateInitiatorIdx_Stay == next_candidate_initiator_idx_

CalcNextCandidateInitiatorIdx ==
  IF num_initiators_ = 0 THEN 0
  ELSE (next_candidate_initiator_idx_ + 1) % num_initiators_


(***************************************************************************)
(* WriteBufferManager: the effect of each accounting call on the three     *)
(* counters, as a function of the counters.  A counter record is           *)
(* [used, inactive, being_freed].  The calls are declared in the header;   *)
(* their bodies follow sections 4.2 and "Disabled mode" of the             *)
(* specification.                                                          *)
(***************************************************************************)
Counters == [used |-> memory_used_, inactive |-> memory_inactive_,
             being_freed |-> memory_being_freed_]

\* used is maintained when a cache is attached or the WBM is enabled
UsedMaintained == cost_to_cache \/ enabled

ReserveMemOn(c, mem) ==
  IF UsedMaintained THEN [c EXCEPT !.used = WrapAdd(@, mem)] ELSE c

ScheduleFreeMemOn(c, mem) ==
  IF enabled THEN [c EXCEPT !.inactive = WrapAdd(@, mem)] ELSE c

FreeMemBeginOn(c, mem) ==
  IF enabled THEN [c EXCEPT !.being_freed = WrapAdd(@, mem)] ELSE c

\* FreeMemAborted, first and second store
FreeMemAbortedInactiveOn(c, mem) ==
  IF enabled THEN [c EXCEPT !.inactive = WrapSub(@, mem)] ELSE c

FreeMemAbortedBeingFreedOn(c, mem) ==
  IF enabled THEN [c EXCEPT !.being_freed = WrapSub(@, mem)] ELSE c

FreeMemAbortedOn(c, mem) ==
  FreeMemAbortedBeingFreedOn(FreeMemAbortedInactiveOn(c, mem), mem)

\* FreeMem, first, second and third store
FreeMemUsedOn(c, mem) ==
  IF UsedMaintained THEN [c EXCEPT !.used = WrapSub(@, mem)] ELSE c

FreeMemInactiveOn(c, mem) ==
  IF enabled THEN [c EXCEPT !.inactive = WrapSub(@, mem)] ELSE c

FreeMemBeingFreed_Skipped(c, mem) == c

FreeMemBeingFreedOn(c, mem) ==
  IF enabled THEN [c EXCEPT !.being_freed = WrapSub(@, mem)] ELSE c

FreeMemOn(c, mem) ==
  FreeMemBeingFreedOn(FreeMemInactiveOn(FreeMemUsedOn(c, mem), mem), mem)

SetCounters(c) ==
  /\ memory_used_' = c.used
  /\ memory_inactive_' = c.inactive
  /\ memory_being_freed_' = c.being_freed

cfgVars == << buffer_size_, mutable_limit_, allow_stall_, initiate_flushes_,
              cost_to_cache_ >>
stallVars == << queue_, stall_active_, signals >>

(***************************************************************************)
(* The callers' accounting calls.  The counters are separate atomics, so   *)
(* a call that changes more than one of them does so in as many steps.     *)
(***************************************************************************)
ReserveMem(i) ==
  /\ itemPc[i] = "none"
  /\ SetCounters(ReserveMemOn(Counters, Mem(i)))
  /\ itemPc' = [itemPc EXCEPT ![i] = "reserved"]
  /\ UNCHANGED << resizeVars, memVars, pickerVars, collabVars, lockVars,
                  initiationVars, cfVars, slotVars,
                  level0Vars, selectVars >>
  /\ UNCHANGED << cfgVars, stallVars, aborts, rebegun, writerPc >>

ScheduleFreeMem(i) ==
  /\ itemPc[i] \in {"reserved", "aborted"}
  /\ SetCounters(ScheduleFreeMemOn(Counters, Mem(i)))
  /\ itemPc' = [itemPc EXCEPT ![i] = "scheduled"]
  /\ UNCHANGED << resizeVars, memVars, pickerVars, collabVars, lockVars,
                  initiationVars, cfVars, slotVars,
                  level0Vars, selectVars >>
  /\ UNCHANGED << cfgVars, stallVars, aborts, rebegun, writerPc >>

FreeMemBegin(i) ==
  /\ itemPc[i] = "scheduled"
  /\ SetCounters(FreeMemBeginOn(Counters, Mem(i)))
  /\ itemPc' = [itemPc EXCEPT ![i] = "begun"]
  /\ UNCHANGED << resizeVars, memVars, pickerVars, collabVars, lockVars,
                  initiationVars, cfVars, slotVars,
                  level0Vars, selectVars >>
  /\ UNCHANGED << cfgVars, stallVars, aborts, rebegun, writerPc >>

\* the retry of section 8, property 3: free_abort(x); free_begin(x); free(x)
FreeMemBeginAfterAbort(i) ==
  /\ itemPc[i] = "aborted"
  /\ SetCounters(FreeMemBeginOn(Counters, Mem(i)))
  /\ itemPc' = [itemPc EXCEPT ![i] = "begun"]
  /\ rebegun' = [rebegun EXCEPT ![i] = TRUE]
  /\ UNCHANGED << resizeVars, memVars, pickerVars, collabVars, lockVars,
                  initiationVars, cfVars, slotVars,
                  level0Vars, selectVars >>
  /\ UNCHANGED << cfgVars, stallVars, aborts, writerPc >>

FreeMemAbortedInactive(i) ==
  /\ itemPc[i] = "begun"
  /\ aborts[i] < MaxAborts
  /\ SetCounters(FreeMemAbortedInactiveOn(Counters, Mem(i)))
  /\ itemPc' = [itemPc EXCEPT ![i] = "abort_i"]
  /\ aborts' = [aborts EXCEPT ![i] = @ + 1]
  /\ UNCHANGED << resizeVars, memVars, pickerVars, collabVars, lockVars,
                  initiationVars, cfVars, slotVars,
                  level0Vars, selectVars >>
  /\ UNCHANGED << cfgVars, stallVars, rebegun, writerPc >>

FreeMemAbortedBeingFreed(i) ==
  /\ itemPc[i] = "abort_i"
  /\ SetCounters(FreeMemAbortedBeingFreedOn(Counters, Mem(i)))
  /\ itemPc' = [itemPc EXCEPT ![i] = "aborted"]
  /\ UNCHANGED << resizeVars, memVars, pickerVars, collabVars, lockVars,
                  initiationVars, cfVars, slotVars,
                  level0Vars, selectVars >>
  /\ UNCHANGED << cfgVars, stallVars, aborts, rebegun, writerPc >>

FreeMemUsed(i) ==
  /\ itemPc[i] = "begun"
  /\ SetCounters(FreeMemUsedOn(Counters, Mem(i)))
  /\ itemPc' = [itemPc EXCEPT ![i] = "free_u"]
  /\ UNCHANGED << resizeVars, memVars, pickerVars, collabVars, lockVars,
                  initiationVars, cfVars, slotVars,
                  level0Vars, selectVars >>
  /\ UNCHANGED << cfgVars, stallVars, aborts, rebegun, writerPc >>

FreeMemInactive(i) ==
  /\ itemPc[i] = "free_u"
  /\ SetCounters(FreeMemInactiveOn(Counters, Mem(i)))
  /\ itemPc' = [itemPc EXCEPT ![i] = "free_i"]
  /\ UNCHANGED << resizeVars, memVars, pickerVars, collabVars, lockVars,
                  initiationVars, cfVars, slotVars,
                  level0Vars, selectVars >>
  /\ UNCHANGED << cfgVars, stallVars, aborts, rebegun, writerPc >>

FreeMemBeingFreed(i) ==
  /\ itemPc[i] = "free_i"
  /\ SetCounters(FreeMemBeingFreedOn(Counters, Mem(i)))
  /\ itemPc' = [itemPc EXCEPT ![i] = "free_b"]
  /\ UNCHANGED << resizeVars, memVars, pickerVars, collabVars, lockVars,
                  initiationVars, cfVars, slotVars,
                  level0Vars, selectVars >>
  /\ UNCHANGED << cfgVars, stallVars, aborts, rebegun, writerPc >>

(***************************************************************************)
(* The stall protocol.                                                     *)
(***************************************************************************)
SeqToSet(s) == { s[n] : n \in 1..Len(s) }

StallResolved_Always == TRUE

\* the condition MaybeEndWriteStall tests under mu_
StallResolved == (memory_usage < buffer_size_) \/ ~enabled

\* MaybeEndWriteStall, the whole call: the test and the pops under mu_, the
\* Signal() of every popped handle after the unlock.
MaybeEndWriteStallEffect ==
  IF StallResolved
    THEN /\ queue_' = << >>
         /\ stall_active_' = FALSE
         /\ signals' = [h \in Handles |->
                          IF h \in SeqToSet(queue_) THEN signals[h] + 1
                          ELSE signals[h]]
    ELSE UNCHANGED stallVars

\* the MaybeEndWriteStall call that ends FreeMem
FreeMemMaybeEndWriteStall(i) ==
  /\ itemPc[i] = "free_b"
  /\ MaybeEndWriteStallEffect
  /\ itemPc' = [itemPc EXCEPT ![i] = "freed"]
  /\ UNCHANGED << resizeVars, memVars, pickerVars, collabVars, lockVars,
                  initiationVars, cfVars, slotVars,
                  level0Vars, selectVars >>
  /\ UNCHANGED << cfgVars, memory_used_, memory_inactive_,
                  memory_being_freed_, aborts, rebegun, writerPc >>

(***************************************************************************)
(* Flush initiation.  Section 4.2 of the specification: every call that    *)
(* changes used, and flush_started and flush_ended, reevaluate the need    *)
(* for one more flush, under flushes_mu_, with the value of used the call  *)
(* produced; memory_being_freed_ is loaded by the evaluation itself.       *)
(***************************************************************************)
\* ReserveMem of a WBM that initiates flushes, up to the reevaluation
ReserveMemInitiating(i) ==
  /\ itemPc[i] = "none"
  /\ SetCounters(ReserveMemOn(Counters, Mem(i)))
  /\ itemPc' = [itemPc EXCEPT ![i] = "reserved"]
  /\ new_memory_used' =
       [new_memory_used EXCEPT ![i] = ReserveMemOn(Counters, Mem(i)).used]
  /\ evalPc' = [evalPc EXCEPT ![i] = "reevaluate"]
  /\ UNCHANGED << resizeVars, memVars, pickerVars, collabVars,
                  lockVars, cfVars, slotVars,
                  level0Vars, selectVars >>
  /\ UNCHANGED << cfgVars, stallVars, aborts, rebegun, writerPc >>
  /\ UNCHANGED << counterVars, thresholdVars, threadInitVars, evalVars,
                  new_flushes_wakeup_ >>

\* FreeMem of a WBM that initiates flushes: the first store
FreeMemUsedInitiating(i) ==
  /\ itemPc[i] = "begun"
  /\ SetCounters(FreeMemUsedOn(Counters, Mem(i)))
  /\ itemPc' = [itemPc EXCEPT ![i] = "free_u"]
  /\ new_memory_used' =
       [new_memory_used EXCEPT ![i] = FreeMemUsedOn(Counters, Mem(i)).used]
  /\ evalPc' = [evalPc EXCEPT ![i] = "after_free"]
  /\ UNCHANGED << resizeVars, memVars, pickerVars, collabVars,
                  lockVars, cfVars, slotVars,
                  level0Vars, selectVars >>
  /\ UNCHANGED << cfgVars, stallVars, aborts, rebegun, writerPc >>
  /\ UNCHANGED << counterVars, thresholdVars, threadInitVars, evalVars,
                  new_flushes_wakeup_ >>

\* the evaluation of ShouldInitiateAnotherFlush(used) under flushes_mu_,
\* the increment and WakeupFlushInitiationThread()
ReevaluateEffect(used) ==
  /\ curr_memory_used' = used
  /\ loaded_being_freed' = memory_being_freed_
  /\ IF ShouldInitiateAnotherFlush(used)
       THEN /\ num_flushes_to_initiate_' = num_flushes_to_initiate_ + 1
            /\ new_flushes_wakeup_' = TRUE
       ELSE UNCHANGED << num_flushes_to_initiate_, new_flushes_wakeup_ >>

\* ReevaluateNeedForMoreFlushes(curr_memory_used) at the end of ReserveMem
\* and of FreeMem
ReevaluateNeedForMoreFlushes(i) ==
  /\ \/ evalPc[i] = "reevaluate"
     \/ evalPc[i] = "after_free" /\ itemPc[i] = "freed"
  /\ ReevaluateEffect(new_memory_used[i])
  /\ evalPc' = [evalPc EXCEPT ![i] = "idle"]
  /\ UNCHANGED << wbmVars, memVars, pickerVars, collabVars, lockVars, cfVars, slotVars,
                  level0Vars, selectVars >>
  /\ UNCHANGED << num_running_flushes_, thresholdVars, threadInitVars,
                  new_memory_used >>

\* FlushStarted(false): a flush the WBM did not initiate
FlushStarted ==
  /\ num_running_flushes_ < MaxRunningFlushes
  /\ num_running_flushes_' = num_running_flushes_ + 1
  /\ curr_memory_used' = memory_usage
  /\ loaded_being_freed' = memory_being_freed_
  /\ IF ShouldInitiateAnotherFlushWith(num_running_flushes_ + 1,
                                       memory_usage)
       THEN /\ num_flushes_to_initiate_' = num_flushes_to_initiate_ + 1
            /\ new_flushes_wakeup_' = TRUE
       ELSE UNCHANGED << num_flushes_to_initiate_, new_flushes_wakeup_ >>
  /\ UNCHANGED << wbmVars, memVars, pickerVars, collabVars, lockVars, cfVars, slotVars,
                  level0Vars, selectVars >>
  /\ UNCHANGED << thresholdVars, threadInitVars, callerVars >>

\* FlushEnded: one flush fewer runs, and one more may be wanted
FlushEnded ==
  /\ num_running_flushes_ > 0
  /\ num_running_flushes_' = num_running_flushes_ - 1
  /\ curr_memory_used' = memory_usage
  /\ loaded_being_freed' = memory_being_freed_
  /\ IF ShouldInitiateAnotherFlushWith(num_running_flushes_ - 1,
                                       memory_usage)
       THEN /\ num_flushes_to_initiate_' = num_flushes_to_initiate_ + 1
            /\ new_flushes_wakeup_' = TRUE
       ELSE UNCHANGED << num_flushes_to_initiate_, new_flushes_wakeup_ >>
  /\ UNCHANGED << wbmVars, memVars, pickerVars, collabVars, lockVars, cfVars, slotVars,
                  level0Vars, selectVars >>
  /\ UNCHANGED << thresholdVars, threadInitVars, callerVars >>

(***************************************************************************)
(* The flush initiation thread.  It waits on flushes_wakeup_cv_ until it   *)
(* was woken and a flush is pending, then calls the initiators in turn,    *)
(* without flushes_mu_, until no flush is pending or every initiator       *)
(* declined.                                                               *)
(***************************************************************************)
InitiateFlushesThreadWake ==
  /\ initPc = "wait"
  /\ new_flushes_wakeup_
  /\ num_flushes_to_initiate_ > 0
  /\ new_flushes_wakeup_' = FALSE
  /\ calls' = << >>
  /\ initPc' = "call"
  /\ UNCHANGED << wbmVars, memVars, pickerVars, collabVars, lockVars, cfVars, slotVars,
                  level0Vars, selectVars >>
  /\ UNCHANGED << counterVars, thresholdVars, evalVars, callerVars,
                  next_candidate_initiator_idx_, was_flush_initiated >>

\* the callback of the initiator under the cursor returns 'initiated'
InitiateAdditionalFlush(initiated) ==
  /\ initPc = "call"
  /\ LET tried == IF was_flush_initiated THEN << >> ELSE calls
         called == Append(tried, next_candidate_initiator_idx_)
     IN  /\ calls' = called
         /\ was_flush_initiated' = initiated
         /\ next_candidate_initiator_idx_' = CalcNextCandidateInitiatorIdx
         /\ IF initiated
              THEN /\ num_running_flushes_' = num_running_flushes_ + 1
                   /\ num_flushes_to_initiate_' =
                        num_flushes_to_initiate_ - 1
                   /\ initPc' = IF num_flushes_to_initiate_ > 1
                                  THEN "call" ELSE "wait"
              ELSE /\ UNCHANGED counterVars
                   /\ initPc' = IF Len(called) >= num_initiators_
                                  THEN "wait" ELSE "call"
  /\ UNCHANGED << wbmVars, memVars, pickerVars, collabVars, lockVars, cfVars, slotVars,
                  level0Vars, selectVars >>
  /\ UNCHANGED << thresholdVars, evalVars, callerVars,
                  new_flushes_wakeup_ >>


\* a writer evaluates ShouldStall() and finds it true
ObserveShouldStall(h) ==
  /\ writerPc[h] = "idle"
  /\ ShouldStall
  /\ writerPc' = [writerPc EXCEPT ![h] = "observed"]
  /\ UNCHANGED << resizeVars, memVars, pickerVars, collabVars, lockVars,
                  initiationVars, cfVars, slotVars,
                  level0Vars, selectVars >>
  /\ UNCHANGED << cfgVars, memory_used_, memory_inactive_,
                  memory_being_freed_, stallVars, itemPc, aborts, rebegun >>

\* BeginWriteStall up to the point where the caller blocks on the handle
BeginWriteStall(h) ==
  /\ writerPc[h] = "observed"
  /\ queue_' = Append(queue_, h)
  /\ stall_active_' = TRUE
  /\ writerPc' = [writerPc EXCEPT ![h] = "blocked"]
  /\ UNCHANGED << resizeVars, memVars, pickerVars, collabVars, lockVars,
                  initiationVars, cfVars, slotVars,
                  level0Vars, selectVars >>
  /\ UNCHANGED << cfgVars, memory_used_, memory_inactive_,
                  memory_being_freed_, signals, itemPc, aborts, rebegun >>

\* StallInterface::Block() returns once the handle has been signaled
BlockReturns(h) ==
  /\ writerPc[h] = "blocked"
  /\ signals[h] > 0
  /\ writerPc' = [writerPc EXCEPT ![h] = "returned"]
  /\ UNCHANGED << resizeVars, memVars, pickerVars, collabVars, lockVars,
                  initiationVars, cfVars, slotVars,
                  level0Vars, selectVars >>
  /\ UNCHANGED << cfgVars, memory_used_, memory_inactive_,
                  memory_being_freed_, stallVars, itemPc, aborts, rebegun >>

(***************************************************************************)
(* SetBufferSize and a concurrent ShouldFlush.  buffer_size_ and           *)
(* mutable_limit_ are separate relaxed atomics: every store and every load *)
(* is a step of its own.                                                   *)
(***************************************************************************)
\* the values SetBufferSize is called with
NewSizes == 0..BufferSize

\* new_size * 7 / 8 in size_t
MutableLimitOf(n) == ((n * 7) % SizeTMod) \div 8

accountVars == << memory_used_, memory_inactive_, memory_being_freed_,
                 itemPc, aborts, rebegun, writerPc >>

\* auto was_enabled = enabled(); buffer_size_.store(new_size)
SetBufferSizeStoreSize(n) ==
  /\ setPc \in {"idle", "done"}
  /\ setCalls < MaxResizes
  /\ setCalls' = setCalls + 1
  /\ new_size' = n
  /\ was_enabled' = enabled
  /\ buffer_size_' = n
  /\ setPc' = "stored_size"
  /\ UNCHANGED << mutable_limit_, allow_stall_, initiate_flushes_,
                  cost_to_cache_, stallVars, accountVars >>
  /\ UNCHANGED << flushPc, local_limit, local_size, flushRes >>
  /\ UNCHANGED << memVars, pickerVars, collabVars, lockVars,
                  initiationVars, cfVars, slotVars,
                  level0Vars, selectVars >>

\* mutable_limit_.store(new_size * 7 / 8)
SetBufferSizeStoreLimit ==
  /\ setPc = "stored_size"
  /\ mutable_limit_' = MutableLimitOf(new_size)
  /\ setPc' = "stored_limit"
  /\ UNCHANGED << buffer_size_, allow_stall_, initiate_flushes_,
                  cost_to_cache_, stallVars, accountVars >>
  /\ UNCHANGED << new_size, was_enabled, setCalls, flushPc, local_limit,
                  local_size, flushRes >>
  /\ UNCHANGED << memVars, pickerVars, collabVars, lockVars,
                  initiationVars, cfVars, slotVars,
                  level0Vars, selectVars >>

\* assert(was_enabled == enabled()): the process stops when it fails
SetBufferSizeAssert ==
  /\ setPc = "stored_limit"
  /\ setPc' = IF was_enabled = enabled THEN "asserted" ELSE "assert_failed"
  /\ UNCHANGED << cfgVars, stallVars, accountVars >>
  /\ UNCHANGED << new_size, was_enabled, setCalls, flushPc, local_limit,
                  local_size, flushRes >>
  /\ UNCHANGED << memVars, pickerVars, collabVars, lockVars,
                  initiationVars, cfVars, slotVars,
                  level0Vars, selectVars >>

\* MaybeEndWriteStall(); with flush initiation on, InitFlushInitiationVars
\* then recomputes the thresholds of the initiation thread, which are no
\* part of this state
SetBufferSizeMaybeEndWriteStall ==
  /\ setPc = "asserted"
  /\ MaybeEndWriteStallEffect
  /\ setPc' = "done"
  /\ UNCHANGED << cfgVars, accountVars >>
  /\ UNCHANGED << new_size, was_enabled, setCalls, flushPc, local_limit,
                  local_size, flushRes >>
  /\ UNCHANGED << memVars, pickerVars, collabVars, lockVars,
                  initiationVars, cfVars, slotVars,
                  level0Vars, selectVars >>

\* ShouldFlush: if ((initiate_flushes_ == false) && enabled())
ShouldFlushEnabled ==
  /\ flushPc = "idle"
  /\ IF (initiate_flushes_ = FALSE) /\ enabled
       THEN flushPc' = "enabled" /\ flushRes' = flushRes
       ELSE flushPc' = "done" /\ flushRes' = "false"
  /\ UNCHANGED << cfgVars, stallVars, accountVars >>
  /\ UNCHANGED << setPc, new_size, was_enabled, setCalls, local_limit,
                  local_size >>
  /\ UNCHANGED << memVars, pickerVars, collabVars, lockVars,
                  initiationVars, cfVars, slotVars,
                  level0Vars, selectVars >>

\* ShouldFlush: mutable_memtable_memory_usage() > mutable_limit_.load()
ShouldFlushLoadLimit ==
  /\ flushPc = "enabled"
  /\ local_limit' = mutable_limit_
  /\ IF mutable_memtable_memory_usage > mutable_limit_
       THEN flushPc' = "done" /\ flushRes' = "true"
       ELSE flushPc' = "loaded_limit" /\ flushRes' = flushRes
  /\ UNCHANGED << cfgVars, stallVars, accountVars >>
  /\ UNCHANGED << setPc, new_size, was_enabled, setCalls, local_size >>
  /\ UNCHANGED << memVars, pickerVars, collabVars, lockVars,
                  initiationVars, cfVars, slotVars,
                  level0Vars, selectVars >>

\* ShouldFlush: size_t local_size = buffer_size(); and the second test
ShouldFlushLoadSize ==
  /\ flushPc = "loaded_limit"
  /\ local_size' = buffer_size_
  /\ flushPc' = "loaded_size"
  /\ flushRes' = IF /\ memory_usage >= buffer_size_
                    /\ mutable_memtable_memory_usage >= buffer_size_ \div 2
                   THEN "true" ELSE "false"
  /\ UNCHANGED << cfgVars, stallVars, accountVars >>
  /\ UNCHANGED << setPc, new_size, was_enabled, setCalls, local_limit >>
  /\ UNCHANGED << memVars, pickerVars, collabVars, lockVars,
                  initiationVars, cfVars, slotVars,
                  level0Vars, selectVars >>

(***************************************************************************)
(* HashSpdRep: the hash table of sorted bucket lists.                      *)
(* A key is a small integer and the comparator is the order of integers.  *)
(* A key handle is the insert that allocated it.                          *)
(***************************************************************************)
Keys == 1..NKeys
Ops == 1..NInserts
ThreadOps == { h \in Ops : h <= NThreadInserts }
Iters == 1..NIters
Lookups == 1..NLookups

\* HashSpdRep::HashSpdRep: spdb_hash_table_(bucket_size, 1024)
NMutexes == 1024

kMergedVectorsMax == 8

\* MemTableRep::KeyComparator: negative, zero or positive
Compare(a, b) == IF a < b THEN -1 ELSE IF a = b THEN 0 ELSE 1

\* SpdbHashTable::GetHash: a hash of the user key; the keys are spread so
\* that some share a mutex, some share a bucket, some share both
GetHash(k) == k * (NMutexes \div 2)

\* SpdbHashTable::GetMutexAndBucket
MutexOf(k) == GetHash(k) % NMutexes
BucketOf(k) == GetHash(k) % n_buckets

\* a SpdbKeyHandle** is the address of a bucket's items_ (-(b + 1)) or of
\* the next field of a handle (h); 0 is no address
HeadLoc(b) == 0 - (b + 1)
NextLoc(h) == h
Deref(loc) == IF loc < 0 THEN items_[(0 - loc) - 1] ELSE nextOf[loc]

\* the inserts inside SpdbHashTable::Add, holding their MutexLock
InHashAdd(h) == opPc[h] \in {"walk", "link_next", "link_loc"}

\* port::Mutex: some MutexLock holds the mutex
MutexHeld(m) ==
  \/ \E g \in Ops : opMutex[g] = m
  \/ \E l \in Lookups : lkMutex[l] = m

\* BucketHeader::Contains from handle k on, at most fuel handles
RECURSIVE ContainsFrom(_, _, _)
ContainsFrom(k, check_key, fuel) ==
  IF k = 0 \/ fuel = 0 THEN FALSE
  ELSE LET cmp_res == Compare(opKey[k], check_key) IN
       IF cmp_res = 0 THEN TRUE
       ELSE IF cmp_res > 0 THEN FALSE
       ELSE ContainsFrom(nextOf[k], check_key, fuel - 1)

BucketContains(b, check_key) == ContainsFrom(items_[b], check_key, NInserts)

\* SpdbHashTable::Contains / HashSpdRep::Contains, for a caller that got the
\* mutex of the key
Contains(check_key) == BucketContains(BucketOf(check_key), check_key)

\* HashSpdRep::Allocate: the caller writes its key into the handle
Allocate(h, k) ==
  /\ opPc[h] = "idle"
  /\ ~immutable_
  /\ opKey' = [opKey EXCEPT ![h] = k]
  /\ opPc' = [opPc EXCEPT ![h] = "allocated"]
  /\ UNCHANGED << n_buckets, items_, nextOf, spdb_vectors_, num_elements_,
                  immutable_, rwReaders, rwWriter, opLoc, opRes, iterOut >>
  /\ UNCHANGED << threadVars, wbmVars, pickerVars, collabVars, lockVars,
                  initiationVars, cfVars, slotVars,
                  level0Vars, selectVars >>

\* SpdbHashTable::Add: MutexLock l(mutex); BucketHeader::Add: loc = &items_
HashAddLock(h) ==
  /\ opPc[h] = "allocated"
  /\ ~MutexHeld(MutexOf(opKey[h]))
  /\ opMutex' = [opMutex EXCEPT ![h] = MutexOf(opKey[h])]
  /\ opLoc' = [opLoc EXCEPT ![h] = HeadLoc(BucketOf(opKey[h]))]
  /\ opPc' = [opPc EXCEPT ![h] = "walk"]
  /\ UNCHANGED << n_buckets, items_, nextOf, spdb_vectors_, num_elements_,
                  immutable_, rwReaders, rwWriter, opKey, opRes, iterOut >>
  /\ UNCHANGED << threadVars, wbmVars, pickerVars, collabVars, lookupVars,
                  initiationVars, cfVars, slotVars,
                  level0Vars, selectVars >>

\* BucketHeader::Add: one turn of the for loop
BucketAddWalk(h) ==
  /\ opPc[h] = "walk"
  /\ LET cur == Deref(opLoc[h]) IN
       IF cur = 0
       THEN /\ opPc' = [opPc EXCEPT ![h] = "link_next"]
            /\ UNCHANGED << opLoc, opRes >>
       ELSE LET cmp_res == Compare(opKey[cur], opKey[h]) IN
            IF cmp_res = 0
            THEN \* return false: InsertKey returns false
                 /\ opPc' = [opPc EXCEPT ![h] = "done"]
                 /\ opRes' = [opRes EXCEPT ![h] = "false"]
                 /\ opLoc' = [opLoc EXCEPT ![h] = 0]
            ELSE IF cmp_res > 0
            THEN /\ opPc' = [opPc EXCEPT ![h] = "link_next"]
                 /\ UNCHANGED << opLoc, opRes >>
            ELSE /\ opLoc' = [opLoc EXCEPT ![h] = NextLoc(cur)]
                 /\ UNCHANGED << opPc, opRes >>
  /\ opMutex' = [opMutex EXCEPT ![h] = IF opPc'[h] = "done" THEN -1 ELSE @]
  /\ UNCHANGED << n_buckets, items_, nextOf, spdb_vectors_, num_elements_,
                  immutable_, rwReaders, rwWriter, opKey, iterOut >>
  /\ UNCHANGED << threadVars, wbmVars, pickerVars, collabVars, lookupVars,
                  initiationVars, cfVars, slotVars,
                  level0Vars, selectVars >>

\* BucketHeader::Add: val->next = *loc
BucketAddLinkNext(h) ==
  /\ opPc[h] = "link_next"
  /\ nextOf' = [nextOf EXCEPT ![h] = Deref(opLoc[h])]
  /\ opPc' = [opPc EXCEPT ![h] = "link_loc"]
  /\ UNCHANGED << n_buckets, items_, spdb_vectors_, num_elements_,
                  immutable_, rwReaders, rwWriter, opKey, opLoc, opRes,
                  iterOut >>
  /\ UNCHANGED << threadVars, wbmVars, pickerVars, collabVars, lockVars,
                  initiationVars, cfVars, slotVars,
                  level0Vars, selectVars >>

\* a SpdbHashTable::Add whose MutexLock outlives the call: InsertKey goes
\* on to the container with the mutex held
BucketAddLinkLoc_KeepMutex(h) ==
  /\ opPc[h] = "link_loc"
  /\ IF opLoc[h] < 0
     THEN /\ items_' = [items_ EXCEPT ![(0 - opLoc[h]) - 1] = h]
          /\ UNCHANGED nextOf
     ELSE /\ nextOf' = [nextOf EXCEPT ![opLoc[h]] = h]
          /\ UNCHANGED items_
  /\ opLoc' = [opLoc EXCEPT ![h] = 0]
  /\ opPc' = [opPc EXCEPT ![h] = "cont_count"]
  /\ UNCHANGED << n_buckets, spdb_vectors_, num_elements_, immutable_,
                  rwReaders, rwWriter, opKey, opRes, iterOut >>
  /\ UNCHANGED << threadVars, wbmVars, pickerVars, collabVars, lockVars,
                  initiationVars, cfVars, slotVars,
                  level0Vars, selectVars >>

\* BucketHeader::Add: *loc = val; return true (the MutexLock is released)
BucketAddLinkLoc(h) ==
  /\ opPc[h] = "link_loc"
  /\ IF opLoc[h] < 0
     THEN /\ items_' = [items_ EXCEPT ![(0 - opLoc[h]) - 1] = h]
          /\ UNCHANGED nextOf
     ELSE /\ nextOf' = [nextOf EXCEPT ![opLoc[h]] = h]
          /\ UNCHANGED items_
  /\ opLoc' = [opLoc EXCEPT ![h] = 0]
  /\ opMutex' = [opMutex EXCEPT ![h] = -1]
  /\ opPc' = [opPc EXCEPT ![h] = "cont_count"]
  /\ UNCHANGED << n_buckets, spdb_vectors_, num_elements_, immutable_,
                  rwReaders, rwWriter, opKey, opRes, iterOut >>
  /\ UNCHANGED << threadVars, wbmVars, pickerVars, collabVars, lookupVars,
                  initiationVars, cfVars, slotVars,
                  level0Vars, selectVars >>

(***************************************************************************)
(* HashSpdRep::Contains and HashSpdRep::Get by the threads that look a key  *)
(* up.                                                                     *)
(***************************************************************************)
\* SpdbHashTable::Contains: GetMutexAndBucket(check_key, comparator)
ContainsCall(l, k) ==
  /\ lkPc[l] = "idle"
  /\ lifePc = "alive"
  /\ lkKey' = [lkKey EXCEPT ![l] = k]
  /\ lkPc' = [lkPc EXCEPT ![l] = "contains_lock"]
  /\ UNCHANGED << lkMutex, lkIter, opMutex >>
  /\ UNCHANGED << wbmVars, memVars, pickerVars, collabVars,
                  initiationVars, cfVars, slotVars,
                  level0Vars, selectVars >>

\* SpdbHashTable::Contains: MutexLock l(mutex_and_bucket.first)
ContainsLock(l) ==
  /\ lkPc[l] = "contains_lock"
  /\ ~MutexHeld(MutexOf(lkKey[l]))
  /\ lkMutex' = [lkMutex EXCEPT ![l] = MutexOf(lkKey[l])]
  /\ lkPc' = [lkPc EXCEPT ![l] = "contains"]
  /\ UNCHANGED << lkKey, lkIter, opMutex >>
  /\ UNCHANGED << wbmVars, memVars, pickerVars, collabVars,
                  initiationVars, cfVars, slotVars,
                  level0Vars, selectVars >>

\* SpdbHashTable::Contains: return bucket->Contains(comparator, check_key);
\* the MutexLock is released
ContainsReturn(l) ==
  /\ lkPc[l] = "contains"
  /\ lkMutex' = [lkMutex EXCEPT ![l] = -1]
  /\ lkPc' = [lkPc EXCEPT ![l] = "idle"]
  /\ UNCHANGED << lkKey, lkIter, opMutex >>
  /\ UNCHANGED << wbmVars, memVars, pickerVars, collabVars,
                  initiationVars, cfVars, slotVars,
                  level0Vars, selectVars >>

\* SpdbHashTable::Get: GetMutexAndBucket(k.internal_key(), comparator)
GetCall(l, k) ==
  /\ lkPc[l] = "idle"
  /\ lifePc = "alive"
  /\ lkKey' = [lkKey EXCEPT ![l] = k]
  /\ lkPc' = [lkPc EXCEPT ![l] = "get_lock"]
  /\ UNCHANGED << lkMutex, lkIter, opMutex >>
  /\ UNCHANGED << wbmVars, memVars, pickerVars, collabVars,
                  initiationVars, cfVars, slotVars,
                  level0Vars, selectVars >>

\* SpdbHashTable::Get: MutexLock l(mutex_and_bucket.first);
\* iter = mutex_and_bucket.second->items_
GetLock(l) ==
  /\ lkPc[l] = "get_lock"
  /\ ~MutexHeld(MutexOf(lkKey[l]))
  /\ lkMutex' = [lkMutex EXCEPT ![l] = MutexOf(lkKey[l])]
  /\ lkIter' = [lkIter EXCEPT ![l] = items_[BucketOf(lkKey[l])]]
  /\ lkPc' = [lkPc EXCEPT ![l] = "get_seek"]
  /\ UNCHANGED << lkKey, opMutex >>
  /\ UNCHANGED << wbmVars, memVars, pickerVars, collabVars,
                  initiationVars, cfVars, slotVars,
                  level0Vars, selectVars >>

\* SpdbHashTable::Get: one turn of the first for loop, which stops at the
\* first key that is not less than the lookup key; at the end of the list
\* the second loop does not run and the MutexLock is released
GetSeek(l) ==
  /\ lkPc[l] = "get_seek"
  /\ IF lkIter[l] = 0
     THEN /\ lkMutex' = [lkMutex EXCEPT ![l] = -1]
          /\ lkPc' = [lkPc EXCEPT ![l] = "idle"]
          /\ UNCHANGED lkIter
     ELSE IF Compare(opKey[lkIter[l]], lkKey[l]) >= 0
     THEN /\ lkPc' = [lkPc EXCEPT ![l] = "callback"]
          /\ UNCHANGED << lkMutex, lkIter >>
     ELSE /\ lkIter' = [lkIter EXCEPT ![l] = nextOf[lkIter[l]]]
          /\ UNCHANGED << lkMutex, lkPc >>
  /\ UNCHANGED << lkKey, opMutex >>
  /\ UNCHANGED << wbmVars, memVars, pickerVars, collabVars,
                  initiationVars, cfVars, slotVars,
                  level0Vars, selectVars >>

\* SpdbHashTable::Get: callback_func(callback_args, iter->key) returns; on
\* false, or at the end of the list, the MutexLock is released
GetCallbackReturn(l, more) ==
  /\ lkPc[l] = "callback"
  /\ IF more /\ nextOf[lkIter[l]] # 0
     THEN /\ lkIter' = [lkIter EXCEPT ![l] = nextOf[lkIter[l]]]
          /\ UNCHANGED << lkMutex, lkPc >>
     ELSE /\ lkMutex' = [lkMutex EXCEPT ![l] = -1]
          /\ lkIter' = [lkIter EXCEPT ![l] = 0]
          /\ lkPc' = [lkPc EXCEPT ![l] = "idle"]
  /\ UNCHANGED << lkKey, opMutex >>
  /\ UNCHANGED << wbmVars, memVars, pickerVars, collabVars,
                  initiationVars, cfVars, slotVars,
                  level0Vars, selectVars >>

NextLookup ==
  \/ \E l \in Lookups, k \in Keys : ContainsCall(l, k)
  \/ \E l \in Lookups : ContainsLock(l)
  \/ \E l \in Lookups : ContainsReturn(l)
  \/ \E l \in Lookups, k \in Keys : GetCall(l, k)
  \/ \E l \in Lookups : GetLock(l)
  \/ \E l \in Lookups : GetSeek(l)
  \/ \E l \in Lookups, more \in BOOLEAN : GetCallbackReturn(l, more)

InitLocks ==
  /\ opMutex = [h \in Ops |-> -1]
  /\ lkPc = [l \in Lookups |-> "idle"]
  /\ lkKey = [l \in Lookups |-> 0]
  /\ lkMutex = [l \in Lookups |-> -1]
  /\ lkIter = [l \in Lookups |-> 0]

(***************************************************************************)
(* SpdbVector and SpdbVectorContainer.                                     *)
(* A vector is [id, items, n_elements_, sorted_]; id is the number of the  *)
(* object, items holds the slots that were written, in slot order.         *)
(***************************************************************************)
\* new SpdbVector(switch_spdb_vector_limit_)
NewSpdbVector(id) ==
  [id |-> id, items |-> << >>, n_elements_ |-> 0, sorted_ |-> FALSE]

\* sort_thread_cv_.notify_one(): wakes SortThread when it is waiting, and
\* is lost when it is not
NotifyOne(pc) == IF pc = "wait" THEN "woken" ELSE pc

\* SpdbVector::Add: what it returns, and the vector it leaves
SpdbVectorAddOk(v) == v.n_elements_ < VectorLimit

SpdbVectorAdd(v, key) ==
  [v EXCEPT !.n_elements_ = @ + 1,
            !.items = IF SpdbVectorAddOk(v) THEN Append(@, key) ELSE @]

\* std::sort(items_.begin(), items_.end(), Compare(comparator))
RECURSIVE InsertInOrder(_, _)
InsertInOrder(s, key) ==
  IF s = << >> THEN << key >>
  ELSE IF Compare(key, Head(s)) <= 0 THEN << key >> \o s
  ELSE << Head(s) >> \o InsertInOrder(Tail(s), key)

RECURSIVE StdSort(_)
StdSort(s) ==
  IF s = << >> THEN << >> ELSE InsertInOrder(StdSort(Tail(s)), Head(s))

Min(a, b) == IF a < b THEN a ELSE b

\* SpdbVector::Sort: what it returns, and the vector it leaves
SpdbVectorSortOk(v) == v.n_elements_ # 0

SpdbVectorSort_KeepCount(v) ==
  IF v.n_elements_ = 0 \/ v.sorted_ THEN v
  ELSE [id |-> v.id,
        items |-> StdSort(SubSeq(v.items, 1, Min(v.n_elements_, VectorLimit))),
        n_elements_ |-> v.n_elements_,
        sorted_ |-> TRUE]

SpdbVectorSort(v) ==
  IF v.n_elements_ = 0 \/ v.sorted_ THEN v
  ELSE [id |-> v.id,
        items |-> StdSort(SubSeq(v.items, 1, Min(v.n_elements_, VectorLimit))),
        n_elements_ |-> Min(v.n_elements_, VectorLimit),
        sorted_ |-> TRUE]

\* SpdbVectorContainer::InternalInsert: spdb_vectors_.back()->Add(key)
InternalInsertOk(vs) == SpdbVectorAddOk(vs[Len(vs)])

\* an InternalInsert that adds to the first vector of the list
InternalInsert_First(vs, key) ==
  [vs EXCEPT ![1] = SpdbVectorAdd(vs[1], key)]

InternalInsert(vs, key) ==
  [vs EXCEPT ![Len(vs)] = SpdbVectorAdd(vs[Len(vs)], key)]

(***************************************************************************)
(* SpdbVector::Add step by step: the fetch_add of n_elements_ and the      *)
(* store into items_[location] are two steps of the calling thread.  The   *)
(* container calls Add on the back of its list with spdb_vectors_rwlock_   *)
(* held, and Sort on a vector only after it has stopped being the back:    *)
(* the switch takes the write lock, so no Add is in flight by then.        *)
(***************************************************************************)
Adders == 1..NAdders

\* a slot of items_ that no Add has written: the nullptr of the constructor
NoKey == 0

\* n_elements_.fetch_add(1, std::memory_order_relaxed)
SpdbVectorFetchAdd(v) == [v EXCEPT !.n_elements_ = @ + 1]

\* items_[location] = key; the slots before it that nobody has written yet
\* hold nullptr
SpdbVectorStore(v, location, key) ==
  [v EXCEPT !.items =
     [n \in 1..(IF Len(@) > location + 1 THEN Len(@) ELSE location + 1) |->
        IF n = location + 1 THEN key
        ELSE IF n <= Len(@) THEN @[n]
        ELSE NoKey]]

\* SpdbVector::Add, first step
AddFetch(t, key) ==
  /\ vecBack
  /\ addPc[t] = "idle"
  /\ addPc' = [addPc EXCEPT ![t] = "fetched"]
  /\ addKey' = [addKey EXCEPT ![t] = key]
  /\ addLocation' = [addLocation EXCEPT ![t] = vec.n_elements_]
  /\ vec' = SpdbVectorFetchAdd(vec)
  /\ UNCHANGED << vecBack, addRet >>
  /\ UNCHANGED << wbmVars, memVars, pickerVars, collabVars, lockVars,
                  initiationVars, cfVars,
                  level0Vars, selectVars >>

\* SpdbVector::Add, second step: the test of location, the store, the return
AddStore(t) ==
  /\ addPc[t] = "fetched"
  /\ addPc' = [addPc EXCEPT ![t] = "returned"]
  /\ IF SpdbVectorAddOk([vec EXCEPT !.n_elements_ = addLocation[t]])
     THEN /\ vec' = SpdbVectorStore(vec, addLocation[t], addKey[t])
          /\ addRet' = [addRet EXCEPT ![t] = TRUE]
     ELSE /\ vec' = vec
          /\ addRet' = [addRet EXCEPT ![t] = FALSE]
  /\ UNCHANGED << vecBack, addKey, addLocation >>
  /\ UNCHANGED << wbmVars, memVars, pickerVars, collabVars, lockVars,
                  initiationVars, cfVars,
                  level0Vars, selectVars >>

\* the container makes another vector the back of its list (Insert or
\* InitIterator with the write lock held, so with no Add in flight)
VecSwitch ==
  /\ vecBack
  /\ \A t \in Adders : addPc[t] # "fetched"
  /\ vecBack' = FALSE
  /\ UNCHANGED << vec, addPc, addKey, addLocation, addRet >>
  /\ UNCHANGED << wbmVars, memVars, pickerVars, collabVars, lockVars,
                  initiationVars, cfVars,
                  level0Vars, selectVars >>

\* SpdbVector::Sort, called by the sort thread or a seeking iterator on a
\* vector that is not the back
VecSort ==
  /\ ~vecBack
  /\ ~vec.sorted_
  /\ SpdbVectorSortOk(vec)
  /\ vec' = SpdbVectorSort(vec)
  /\ UNCHANGED << vecBack, addPc, addKey, addLocation, addRet >>
  /\ UNCHANGED << wbmVars, memVars, pickerVars, collabVars, lockVars,
                  initiationVars, cfVars,
                  level0Vars, selectVars >>

InitSlots ==
  /\ vec = NewSpdbVector(1)
  /\ vecBack = TRUE
  /\ addPc = [t \in Adders |-> "idle"]
  /\ addKey = [t \in Adders |-> NoKey]
  /\ addLocation = [t \in Adders |-> 0]
  /\ addRet = [t \in Adders |-> FALSE]

SlotsUnused == InitSlots

NextSlots ==
  \/ \E t \in Adders, key \in Keys : AddFetch(t, key)
  \/ \E t \in Adders : AddStore(t)
  \/ VecSwitch
  \/ VecSort

\* SpdbVectorContainer::Insert: num_elements_.fetch_add(1)
ContainerInsertCount(h) ==
  /\ opPc[h] = "cont_count"
  /\ num_elements_' = num_elements_ + 1
  /\ opPc' = [opPc EXCEPT ![h] = "cont_rlock"]
  /\ UNCHANGED << n_buckets, items_, nextOf, spdb_vectors_, immutable_,
                  rwReaders, rwWriter, opKey, opLoc, opRes, iterOut >>
  /\ UNCHANGED << threadVars, wbmVars, pickerVars, collabVars, lockVars,
                  initiationVars, cfVars, slotVars,
                  level0Vars, selectVars >>

\* SpdbVectorContainer::Insert: ReadLock rl(&spdb_vectors_rwlock_)
ContainerInsertReadLock(h) ==
  /\ opPc[h] = "cont_rlock"
  /\ rwWriter = 0
  /\ rwReaders' = rwReaders \cup {h}
  /\ opPc' = [opPc EXCEPT ![h] = "cont_radd"]
  /\ UNCHANGED << n_buckets, items_, nextOf, spdb_vectors_, num_elements_,
                  immutable_, rwWriter, opKey, opLoc, opRes, iterOut >>
  /\ UNCHANGED << threadVars, wbmVars, pickerVars, collabVars, lockVars,
                  initiationVars, cfVars, slotVars,
                  level0Vars, selectVars >>

\* SpdbVectorContainer::Insert: InternalInsert under the read lock; on
\* success InsertKey returns true
ContainerInsertReadAdd(h) ==
  /\ opPc[h] = "cont_radd"
  /\ spdb_vectors_' = InternalInsert(spdb_vectors_, opKey[h])
  /\ rwReaders' = rwReaders \ {h}
  /\ IF InternalInsertOk(spdb_vectors_)
     THEN /\ opPc' = [opPc EXCEPT ![h] = "done"]
          /\ opRes' = [opRes EXCEPT ![h] = "true"]
     ELSE /\ opPc' = [opPc EXCEPT ![h] = "cont_wlock"]
          /\ UNCHANGED opRes
  /\ UNCHANGED << n_buckets, items_, nextOf, num_elements_, immutable_,
                  rwWriter, opKey, opLoc, iterOut >>
  /\ UNCHANGED << threadVars, wbmVars, pickerVars, collabVars, lockVars,
                  initiationVars, cfVars, slotVars,
                  level0Vars, selectVars >>

\* SpdbVectorContainer::Insert: WriteLock wl(&spdb_vectors_rwlock_)
ContainerInsertWriteLock(h) ==
  /\ opPc[h] = "cont_wlock"
  /\ rwWriter = 0
  /\ rwReaders = {}
  /\ rwWriter' = h
  /\ opPc' = [opPc EXCEPT ![h] = "cont_wadd"]
  /\ UNCHANGED << n_buckets, items_, nextOf, spdb_vectors_, num_elements_,
                  immutable_, rwReaders, opKey, opLoc, opRes, iterOut >>
  /\ UNCHANGED << threadVars, wbmVars, pickerVars, collabVars, lockVars,
                  initiationVars, cfVars, slotVars,
                  level0Vars, selectVars >>

\* SpdbVectorContainer::Insert without the second InternalInsert under the
\* write lock: the writer that lost the add always pushes a vector
ContainerInsertWriteAdd_NoRetry(h) ==
  /\ opPc[h] = "cont_wadd"
  /\ LET pushed ==
           Append(spdb_vectors_, NewSpdbVector(vectors_created + 1))
     IN /\ spdb_vectors_' = InternalInsert(pushed, opKey[h])
        /\ vectors_created' = vectors_created + 1
        /\ opPc' = [opPc EXCEPT ![h] =
                      IF InternalInsertOk(pushed) THEN "cont_notify"
                      ELSE "assert_failed"]
        /\ UNCHANGED opRes
  /\ rwWriter' = 0
  /\ UNCHANGED << n_buckets, items_, nextOf, num_elements_, immutable_,
                  rwReaders, opKey, opLoc, iterOut >>
  /\ UNCHANGED << erased, sortPc, sort_iter_anchor, last, markPc, lifePc,
                  iterPc, iterImmutable, iter_anchor, iterAppended,
                  iterStarted, iterSnapshot, iterKeys >>
  /\ UNCHANGED << wbmVars, pickerVars, collabVars, lockVars,
                  initiationVars, cfVars, slotVars,
                  level0Vars, selectVars >>

\* SpdbVectorContainer::Insert: the block under the write lock; when the
\* retry succeeds InsertKey returns true
ContainerInsertWriteAdd(h) ==
  /\ opPc[h] = "cont_wadd"
  /\ LET retried == InternalInsert(spdb_vectors_, opKey[h]) IN
       IF InternalInsertOk(spdb_vectors_)
       THEN /\ spdb_vectors_' = retried
            /\ opPc' = [opPc EXCEPT ![h] = "done"]
            /\ opRes' = [opRes EXCEPT ![h] = "true"]
            /\ UNCHANGED vectors_created
       ELSE LET pushed ==
                  Append(retried, NewSpdbVector(vectors_created + 1))
            IN /\ spdb_vectors_' = InternalInsert(pushed, opKey[h])
               /\ vectors_created' = vectors_created + 1
               /\ opPc' = [opPc EXCEPT ![h] =
                             IF InternalInsertOk(pushed) THEN "cont_notify"
                             ELSE "assert_failed"]
               /\ UNCHANGED opRes
  /\ rwWriter' = 0
  /\ UNCHANGED << n_buckets, items_, nextOf, num_elements_, immutable_,
                  rwReaders, opKey, opLoc, iterOut >>
  /\ UNCHANGED << erased, sortPc, sort_iter_anchor, last, markPc, lifePc,
                  iterPc, iterImmutable, iter_anchor, iterAppended,
                  iterStarted, iterSnapshot, iterKeys >>
  /\ UNCHANGED << wbmVars, pickerVars, collabVars, lockVars,
                  initiationVars, cfVars, slotVars,
                  level0Vars, selectVars >>

\* SpdbVectorContainer::Insert: sort_thread_cv_.notify_one() after a new
\* vector was pushed; InsertKey returns true
ContainerInsertNotify(h) ==
  /\ opPc[h] = "cont_notify"
  /\ sortPc' = NotifyOne(sortPc)
  /\ opPc' = [opPc EXCEPT ![h] = "done"]
  /\ opRes' = [opRes EXCEPT ![h] = "true"]
  /\ UNCHANGED << n_buckets, items_, nextOf, spdb_vectors_, num_elements_,
                  immutable_, rwReaders, rwWriter, opKey, opLoc, iterOut >>
  /\ UNCHANGED << vectors_created, erased, sort_iter_anchor, last, markPc,
                  lifePc, iterPc, iterImmutable, iter_anchor, iterAppended,
                  iterStarted, iterSnapshot, iterKeys >>
  /\ UNCHANGED << wbmVars, pickerVars, collabVars, lockVars,
                  initiationVars, cfVars, slotVars,
                  level0Vars, selectVars >>

\* SortThread holds sort_thread_mutex_ from its first statement on, except
\* while it waits on sort_thread_cv_
SortThreadMutexHeld == sortPc \in {"read_last", "sort", "merge", "merging"}

\* HashSpdRep::MarkReadOnly, called by the engine once every insert has
\* returned: immutable_ is set under sort_thread_mutex_
MarkReadOnly ==
  /\ lifePc = "alive"
  /\ markPc = "idle"
  /\ ~immutable_
  /\ \A h \in Ops : opPc[h] \in {"idle", "done"}
  /\ ~SortThreadMutexHeld
  /\ immutable_' = TRUE
  /\ markPc' = "notify"
  /\ UNCHANGED << n_buckets, items_, nextOf, spdb_vectors_, num_elements_,
                  rwReaders, rwWriter, opKey, opPc, opLoc, opRes, iterOut >>
  /\ UNCHANGED << vectors_created, erased, sortPc, sort_iter_anchor, last,
                  lifePc, iterPc, iterImmutable, iter_anchor, iterAppended,
                  iterStarted, iterSnapshot, iterKeys >>
  /\ UNCHANGED << wbmVars, pickerVars, collabVars, lockVars,
                  initiationVars, cfVars, slotVars,
                  level0Vars, selectVars >>

\* MarkReadOnly: sort_thread_cv_.notify_one(); in the destructor the join
\* of the sort thread follows
MarkReadOnlyNotify ==
  /\ markPc = "notify"
  /\ sortPc' = NotifyOne(sortPc)
  /\ markPc' = "idle"
  /\ lifePc' = IF lifePc = "dtor" THEN "join" ELSE lifePc
  /\ UNCHANGED << n_buckets, items_, nextOf, spdb_vectors_, num_elements_,
                  immutable_, rwReaders, rwWriter, opKey, opPc, opLoc, opRes,
                  iterOut >>
  /\ UNCHANGED << vectors_created, erased, sort_iter_anchor, last, iterPc,
                  iterImmutable, iter_anchor, iterAppended, iterStarted,
                  iterSnapshot, iterKeys >>
  /\ UNCHANGED << wbmVars, pickerVars, collabVars, lockVars,
                  initiationVars, cfVars, slotVars,
                  level0Vars, selectVars >>

\* SpdbVectorContainer::IsEmpty
ContainerIsEmpty == num_elements_ = 0

\* SpdbVectorContainer::InitIterator on an immutable container: an anchor
\* for every vector of the list
IterAnchors == spdb_vectors_

\* SpdbVectorContainer::SeekIter with SEEK_INIT_FORWARD_OP and no seek key:
\* Sort every anchor; one that sorted and is not empty enters the heap with
\* its cursor on its first item
SeekIterSorted(anchors) == [n \in 1..Len(anchors) |-> SpdbVectorSort(anchors[n])]

SeekIterCursors(anchors) ==
  [n \in 1..Len(anchors) |->
     IF SpdbVectorSortOk(anchors[n]) THEN SpdbVectorSort(anchors[n]).items
     ELSE << >>]

\* SpdbVectorIterator::Next until the iterator is not Valid: the heap gives
\* the cursor with the least key, which is returned and advanced
LeastCursor(cursors) ==
  CHOOSE n \in 1..Len(cursors) :
    /\ cursors[n] # << >>
    /\ \A m \in 1..Len(cursors) :
         cursors[m] # << >> =>
           \/ Compare(Head(cursors[n]), Head(cursors[m])) < 0
           \/ Compare(Head(cursors[n]), Head(cursors[m])) = 0 /\ n <= m

RECURSIVE IterateForward(_)
IterateForward(cursors) ==
  IF \A n \in 1..Len(cursors) : cursors[n] = << >> THEN << >>
  ELSE LET n == LeastCursor(cursors) IN
       << Head(cursors[n]) >> \o
         IterateForward([cursors EXCEPT ![n] = Tail(@)])

\* HashSpdRep::GetIterator on the read-only memtable, SeekToFirst, then Next
\* while Valid
IterateReadOnly ==
  /\ lifePc = "alive"
  /\ immutable_
  /\ iterOut = << 0 >>
  /\ IF ContainerIsEmpty
     THEN /\ iterOut' = << >>
          /\ UNCHANGED spdb_vectors_
     ELSE /\ iterOut' = IterateForward(SeekIterCursors(IterAnchors))
          /\ spdb_vectors_' = SeekIterSorted(IterAnchors)
  /\ UNCHANGED << n_buckets, items_, nextOf, num_elements_, immutable_,
                  rwReaders, rwWriter, opKey, opPc, opLoc, opRes >>
  /\ UNCHANGED << threadVars, wbmVars, pickerVars, collabVars, lockVars,
                  initiationVars, cfVars, slotVars,
                  level0Vars, selectVars >>

(***************************************************************************)
(* SpdbVectorContainer::SortThread.  A list iterator is the number of the  *)
(* vector it points to.                                                    *)
(***************************************************************************)
PosOf(id) ==
  CHOOSE n \in 1..Len(spdb_vectors_) : spdb_vectors_[n].id = id

InList(id) == \E n \in 1..Len(spdb_vectors_) : spdb_vectors_[n].id = id

\* the vector an iterator or a shared pointer refers to
VecOf(id) ==
  IF InList(id) THEN spdb_vectors_[PosOf(id)]
  ELSE CHOOSE v \in erased : v.id = id

IdsOf(vs) == [n \in 1..Len(vs) |-> vs[n].id]

\* SpdbVector::Size and SpdbVector::IsEmpty
SpdbVectorSize(v) == v.n_elements_
SpdbVectorIsEmpty(v) == v.n_elements_ = 0

\* SortThread up to its first wait: std::unique_lock lck(sort_thread_mutex_);
\* sort_iter_anchor = spdb_vectors_.begin(); sort_thread_cv_.wait(lck)
SortThreadStart ==
  /\ sortPc = "start"
  /\ sort_iter_anchor' = spdb_vectors_[1].id
  /\ sortPc' = "wait"
  /\ UNCHANGED << n_buckets, items_, nextOf, spdb_vectors_, num_elements_,
                  immutable_, rwReaders, rwWriter, opKey, opPc, opLoc, opRes,
                  iterOut >>
  /\ UNCHANGED << vectors_created, erased, last, markPc, lifePc, iterPc,
                  iterImmutable, iter_anchor, iterAppended, iterStarted,
                  iterSnapshot, iterKeys >>
  /\ UNCHANGED << wbmVars, pickerVars, collabVars, lockVars,
                  initiationVars, cfVars, slotVars,
                  level0Vars, selectVars >>

\* SortThread: wait returns after a notify_one; if (immutable_) break
SortThreadWake ==
  /\ sortPc = "woken"
  /\ sortPc' = IF immutable_ THEN "terminated" ELSE "read_last"
  /\ UNCHANGED << n_buckets, items_, nextOf, spdb_vectors_, num_elements_,
                  immutable_, rwReaders, rwWriter, opKey, opPc, opLoc, opRes,
                  iterOut >>
  /\ UNCHANGED << vectors_created, erased, sort_iter_anchor, last, markPc,
                  lifePc, iterPc, iterImmutable, iter_anchor, iterAppended,
                  iterStarted, iterSnapshot, iterKeys >>
  /\ UNCHANGED << wbmVars, pickerVars, collabVars, lockVars,
                  initiationVars, cfVars, slotVars,
                  level0Vars, selectVars >>

\* SortThread: last = std::prev(spdb_vectors_.end()) under the read lock;
\* if (last == sort_iter_anchor) continue, which waits again
SortThreadReadLast ==
  /\ sortPc = "read_last"
  /\ rwWriter = 0
  /\ last' = spdb_vectors_[Len(spdb_vectors_)].id
  /\ sortPc' = IF last' = sort_iter_anchor THEN "wait" ELSE "sort"
  /\ UNCHANGED << n_buckets, items_, nextOf, spdb_vectors_, num_elements_,
                  immutable_, rwReaders, rwWriter, opKey, opPc, opLoc, opRes,
                  iterOut >>
  /\ UNCHANGED << vectors_created, erased, sort_iter_anchor, markPc, lifePc,
                  iterPc, iterImmutable, iter_anchor, iterAppended,
                  iterStarted, iterSnapshot, iterKeys >>
  /\ UNCHANGED << wbmVars, pickerVars, collabVars, lockVars,
                  initiationVars, cfVars, slotVars,
                  level0Vars, selectVars >>

\* SortThread: one turn of for (; sort_iter_anchor != last; ++sort_iter_anchor)
SortThreadSort ==
  /\ sortPc = "sort"
  /\ LET n == PosOf(sort_iter_anchor) IN
       /\ spdb_vectors_' =
            [spdb_vectors_ EXCEPT ![n] = SpdbVectorSort(@)]
       /\ sort_iter_anchor' = spdb_vectors_[n + 1].id
  /\ sortPc' = IF sort_iter_anchor' = last THEN "merge" ELSE "sort"
  /\ UNCHANGED << n_buckets, items_, nextOf, num_elements_, immutable_,
                  rwReaders, rwWriter, opKey, opPc, opLoc, opRes, iterOut >>
  /\ UNCHANGED << vectors_created, erased, last, markPc, lifePc, iterPc,
                  iterImmutable, iter_anchor, iterAppended, iterStarted,
                  iterSnapshot, iterKeys >>
  /\ UNCHANGED << wbmVars, pickerVars, collabVars, lockVars,
                  initiationVars, cfVars, slotVars,
                  level0Vars, selectVars >>

\* TryMergeVectors: the for loop from position s on; start, last_ and count
\* are the locals of the function
merge_threshold == (VectorLimit * 75) \div 100

RECURSIVE TryMergeScan(_, _, _, _)
TryMergeScan(s, start, last_, count) ==
  IF s = last_ THEN [start |-> start, last |-> last_, count |-> count]
  ELSE IF SpdbVectorSize(spdb_vectors_[s]) > merge_threshold
       THEN IF count > 1
            THEN [start |-> start, last |-> s, count |-> count]
            ELSE TryMergeScan(s + 1, s + 1, last_, 0)
       ELSE IF count + 1 = kMergedVectorsMax
            THEN [start |-> start, last |-> s + 1, count |-> count + 1]
            ELSE TryMergeScan(s + 1, start, last_, count + 1)

TryMergeVectors(last_) == TryMergeScan(1, 1, last_, 0)

\* a Merge that builds the new vector from the first vector of the run only
MergedVector_FirstOnly(start, last_) ==
  LET merged == IterateForward(SeekIterCursors(<< spdb_vectors_[start] >>))
  IN  [id |-> vectors_created + 1, items |-> merged,
       n_elements_ |-> Len(merged), sorted_ |-> TRUE]

\* Merge: the vector that replaces the vectors at the positions
\* start .. last_ - 1
MergedVector(start, last_) ==
  LET merged ==
        IterateForward(SeekIterCursors(SubSeq(spdb_vectors_, start, last_ - 1)))
  IN  [id |-> vectors_created + 1, items |-> merged,
       n_elements_ |-> Len(merged), sorted_ |-> TRUE]

\* the iterators that hold a vector
Holders(id) ==
  { it \in Iters : \E n \in 1..Len(iter_anchor[it]) : iter_anchor[it][n] = id }

\* SortThread: if (spdb_vectors_.size() > kMergedVectorsMax) TryMergeVectors,
\* up to the call of Merge: start and last, the arguments of Merge, are kept
\* in sort_iter_anchor and last, which SortThread assigns anew before it
\* reads them.  Without a merge SortThread waits again
SortThreadTryMerge ==
  /\ sortPc = "merge"
  /\ LET r == TryMergeVectors(PosOf(last))
         merges == Len(spdb_vectors_) > kMergedVectorsMax /\ r.count > 1
     IN  IF merges
         THEN /\ sort_iter_anchor' = spdb_vectors_[r.start].id
              /\ last' = spdb_vectors_[r.last].id
              /\ sortPc' = "merging"
         ELSE /\ sortPc' = "wait"
              /\ UNCHANGED << sort_iter_anchor, last >>
  /\ UNCHANGED << n_buckets, items_, nextOf, spdb_vectors_, num_elements_,
                  immutable_, rwReaders, rwWriter, opKey, opPc, opLoc, opRes,
                  iterOut >>
  /\ UNCHANGED << vectors_created, erased, markPc, lifePc, iterPc,
                  iterImmutable, iter_anchor, iterAppended, iterStarted,
                  iterSnapshot, iterKeys >>
  /\ UNCHANGED << wbmVars, pickerVars, collabVars, lockVars,
                  initiationVars, cfVars, slotVars,
                  level0Vars, selectVars >>

\* Merge: the merged vector is built from the vectors of the run, which no
\* add reaches, and replaces them under the write lock; TryMergeVectors
\* returns true, sort_iter_anchor = spdb_vectors_.begin(), and SortThread
\* waits again
SortThreadMerge ==
  /\ sortPc = "merging"
  /\ rwWriter = 0
  /\ rwReaders = {}
  /\ LET start == PosOf(sort_iter_anchor)
         last_ == PosOf(last)
     IN  /\ spdb_vectors_' =
              SubSeq(spdb_vectors_, 1, start - 1)
                \o << MergedVector(start, last_) >>
                \o SubSeq(spdb_vectors_, last_, Len(spdb_vectors_))
         /\ erased' =
              erased \cup
                { SpdbVectorSort(spdb_vectors_[n]) :
                    n \in { m \in start..(last_ - 1) :
                              Holders(spdb_vectors_[m].id) # {} } }
  /\ vectors_created' = vectors_created + 1
  /\ sort_iter_anchor' = spdb_vectors_'[1].id
  /\ sortPc' = "wait"
  /\ UNCHANGED << n_buckets, items_, nextOf, num_elements_, immutable_,
                  rwReaders, rwWriter, opKey, opPc, opLoc, opRes, iterOut >>
  /\ UNCHANGED << last, markPc, lifePc, iterPc, iterImmutable, iter_anchor,
                  iterAppended, iterStarted, iterSnapshot, iterKeys >>
  /\ UNCHANGED << wbmVars, pickerVars, collabVars, lockVars,
                  initiationVars, cfVars, slotVars,
                  level0Vars, selectVars >>

(***************************************************************************)
(* HashSpdRep::GetIterator by a reader of the memtable, mutable or not.    *)
(***************************************************************************)
\* the keys whose InsertKey has been called
StartedKeys == { opKey[h] : h \in { g \in Ops : opPc[g] \notin {"idle", "allocated"} } }

\* what the vectors with these numbers hold, in comparator order
ContentsOf(ids) ==
  { << ids[n], StdSort(VecOf(ids[n]).items) >> : n \in 1..Len(ids) }

\* GetIterator: empty_iter = spdb_vectors_cont_->IsEmpty(); an empty
\* memtable gets a SpdbVectorIteratorEmpty
GetIterator(it) ==
  /\ lifePc = "alive"
  /\ iterPc[it] = "idle"
  /\ iterPc' = [iterPc EXCEPT ![it] = IF ContainerIsEmpty THEN "empty"
                                       ELSE "load"]
  /\ UNCHANGED << n_buckets, items_, nextOf, spdb_vectors_, num_elements_,
                  immutable_, rwReaders, rwWriter, opKey, opPc, opLoc, opRes,
                  iterOut >>
  /\ UNCHANGED << vectors_created, erased, sortPc, sort_iter_anchor, last,
                  markPc, lifePc, iterImmutable, iter_anchor, iterAppended,
                  iterStarted, iterSnapshot, iterKeys >>
  /\ UNCHANGED << wbmVars, pickerVars, collabVars, lockVars,
                  initiationVars, cfVars, slotVars,
                  level0Vars, selectVars >>

\* InitIterator: bool immutable = immutable_.load()
InitIteratorLoad(it) ==
  /\ iterPc[it] = "load"
  /\ iterImmutable' = [iterImmutable EXCEPT ![it] = immutable_]
  /\ iterPc' = [iterPc EXCEPT ![it] = "init"]
  /\ UNCHANGED << n_buckets, items_, nextOf, spdb_vectors_, num_elements_,
                  immutable_, rwReaders, rwWriter, opKey, opPc, opLoc, opRes,
                  iterOut >>
  /\ UNCHANGED << vectors_created, erased, sortPc, sort_iter_anchor, last,
                  markPc, lifePc, iter_anchor, iterAppended, iterStarted,
                  iterSnapshot, iterKeys >>
  /\ UNCHANGED << wbmVars, pickerVars, collabVars, lockVars,
                  initiationVars, cfVars, slotVars,
                  level0Vars, selectVars >>

\* the construction has returned
IteratorBuilt(it, ids) ==
  /\ iter_anchor' = [iter_anchor EXCEPT ![it] = ids]
  /\ iterSnapshot' = [iterSnapshot EXCEPT ![it] = ContentsOf(ids)]
  /\ iterStarted' = [iterStarted EXCEPT ![it] = StartedKeys]
  /\ iterPc' = [iterPc EXCEPT ![it] = "built"]

\* InitIterator on a container that was immutable: an anchor for every
\* vector, no lock
InitIteratorImmutable(it) ==
  /\ iterPc[it] = "init"
  /\ iterImmutable[it]
  /\ IteratorBuilt(it, IdsOf(spdb_vectors_))
  /\ UNCHANGED << n_buckets, items_, nextOf, spdb_vectors_, num_elements_,
                  immutable_, rwReaders, rwWriter, opKey, opPc, opLoc, opRes,
                  iterOut >>
  /\ UNCHANGED << vectors_created, erased, sortPc, sort_iter_anchor, last,
                  markPc, lifePc, iterImmutable, iterAppended, iterKeys >>
  /\ UNCHANGED << wbmVars, pickerVars, collabVars, lockVars,
                  initiationVars, cfVars, slotVars,
                  level0Vars, selectVars >>

\* InitIterator: spdb_vectors_.push_back(new SpdbVector(...))
PushedVectors_NoPush(vs, id) == vs

PushedVectors(vs, id) == Append(vs, NewSpdbVector(id))

\* InitIterator on a mutable container whose last vector is not empty,
\* under the write lock: a new vector is pushed and the anchors are the
\* vectors before it
InitIteratorPush(it) ==
  /\ iterPc[it] = "init"
  /\ ~iterImmutable[it]
  /\ rwWriter = 0
  /\ rwReaders = {}
  /\ ~SpdbVectorIsEmpty(spdb_vectors_[Len(spdb_vectors_)])
  /\ spdb_vectors_' = PushedVectors(spdb_vectors_, vectors_created + 1)
  /\ vectors_created' = vectors_created + 1
  /\ iter_anchor' = [iter_anchor EXCEPT ![it] = IdsOf(spdb_vectors_)]
  /\ iterSnapshot' =
       [iterSnapshot EXCEPT ![it] = ContentsOf(IdsOf(spdb_vectors_))]
  /\ iterAppended' = [iterAppended EXCEPT ![it] = TRUE]
  /\ iterPc' = [iterPc EXCEPT ![it] = "notify"]
  /\ UNCHANGED << n_buckets, items_, nextOf, num_elements_, immutable_,
                  rwReaders, rwWriter, opKey, opPc, opLoc, opRes, iterOut >>
  /\ UNCHANGED << erased, sortPc, sort_iter_anchor, last, markPc, lifePc,
                  iterImmutable, iterStarted, iterKeys >>
  /\ UNCHANGED << wbmVars, pickerVars, collabVars, lockVars,
                  initiationVars, cfVars, slotVars,
                  level0Vars, selectVars >>

\* InitIterator: sort_thread_cv_.notify_one() after the unlock
InitIteratorNotify(it) ==
  /\ iterPc[it] = "notify"
  /\ sortPc' = NotifyOne(sortPc)
  /\ iterStarted' = [iterStarted EXCEPT ![it] = StartedKeys]
  /\ iterPc' = [iterPc EXCEPT ![it] = "built"]
  /\ UNCHANGED << n_buckets, items_, nextOf, spdb_vectors_, num_elements_,
                  immutable_, rwReaders, rwWriter, opKey, opPc, opLoc, opRes,
                  iterOut >>
  /\ UNCHANGED << vectors_created, erased, sort_iter_anchor, last, markPc,
                  lifePc, iterImmutable, iter_anchor, iterAppended,
                  iterSnapshot, iterKeys >>
  /\ UNCHANGED << wbmVars, pickerVars, collabVars, lockVars,
                  initiationVars, cfVars, slotVars,
                  level0Vars, selectVars >>

\* an InitIterator that does not step back from the empty last vector: the
\* anchors are all the vectors of the list
InitIteratorEmptyTail_WithTail(it) ==
  /\ iterPc[it] = "init"
  /\ ~iterImmutable[it]
  /\ rwWriter = 0
  /\ rwReaders = {}
  /\ SpdbVectorIsEmpty(spdb_vectors_[Len(spdb_vectors_)])
  /\ Len(spdb_vectors_) > 1
  /\ IteratorBuilt(it, IdsOf(spdb_vectors_))
  /\ UNCHANGED << n_buckets, items_, nextOf, spdb_vectors_, num_elements_,
                  immutable_, rwReaders, rwWriter, opKey, opPc, opLoc, opRes,
                  iterOut >>
  /\ UNCHANGED << vectors_created, erased, sortPc, sort_iter_anchor, last,
                  markPc, lifePc, iterImmutable, iterAppended, iterKeys >>
  /\ UNCHANGED << wbmVars, pickerVars, collabVars, lockVars,
                  initiationVars, cfVars, slotVars,
                  level0Vars, selectVars >>

\* InitIterator on a mutable container whose last vector is empty, under
\* the write lock: --last_iter; ++last_iter; the anchors are the vectors
\* before the last one
InitIteratorEmptyTail(it) ==
  /\ iterPc[it] = "init"
  /\ ~iterImmutable[it]
  /\ rwWriter = 0
  /\ rwReaders = {}
  /\ SpdbVectorIsEmpty(spdb_vectors_[Len(spdb_vectors_)])
  /\ Len(spdb_vectors_) > 1
  /\ IteratorBuilt(it, IdsOf(SubSeq(spdb_vectors_, 1, Len(spdb_vectors_) - 1)))
  /\ UNCHANGED << n_buckets, items_, nextOf, spdb_vectors_, num_elements_,
                  immutable_, rwReaders, rwWriter, opKey, opPc, opLoc, opRes,
                  iterOut >>
  /\ UNCHANGED << vectors_created, erased, sortPc, sort_iter_anchor, last,
                  markPc, lifePc, iterImmutable, iterAppended, iterKeys >>
  /\ UNCHANGED << wbmVars, pickerVars, collabVars, lockVars,
                  initiationVars, cfVars, slotVars,
                  level0Vars, selectVars >>

\* the same when the empty vector is the only one: --last_iter decrements
\* spdb_vectors_.begin(), which is undefined.  A list with a sentinel node
\* wraps to end(), and the iterator gets no anchor; a checked library stops
\* the process
InitIteratorDecrementBegin(it) ==
  /\ iterPc[it] = "init"
  /\ ~iterImmutable[it]
  /\ rwWriter = 0
  /\ rwReaders = {}
  /\ SpdbVectorIsEmpty(spdb_vectors_[Len(spdb_vectors_)])
  /\ Len(spdb_vectors_) = 1
  /\ \/ IteratorBuilt(it, << >>)
     \/ /\ iterPc' = [iterPc EXCEPT ![it] = "fault"]
        /\ UNCHANGED << iter_anchor, iterSnapshot, iterStarted >>
  /\ UNCHANGED << n_buckets, items_, nextOf, spdb_vectors_, num_elements_,
                  immutable_, rwReaders, rwWriter, opKey, opPc, opLoc, opRes,
                  iterOut >>
  /\ UNCHANGED << vectors_created, erased, sortPc, sort_iter_anchor, last,
                  markPc, lifePc, iterImmutable, iterAppended, iterKeys >>
  /\ UNCHANGED << wbmVars, pickerVars, collabVars, lockVars,
                  initiationVars, cfVars, slotVars,
                  level0Vars, selectVars >>

\* SeekToFirst, then Next while Valid: SeekIter sorts every anchor
IterateAnchors(it) ==
  /\ lifePc = "alive"
  /\ iterPc[it] = "built"
  /\ LET held == { iter_anchor[it][n] : n \in 1..Len(iter_anchor[it]) }
         anchors == [n \in 1..Len(iter_anchor[it]) |->
                       VecOf(iter_anchor[it][n])]
     IN  /\ iterKeys' =
              [iterKeys EXCEPT ![it] = IterateForward(SeekIterCursors(anchors))]
         /\ spdb_vectors_' =
              [n \in 1..Len(spdb_vectors_) |->
                 IF spdb_vectors_[n].id \in held
                 THEN SpdbVectorSort(spdb_vectors_[n])
                 ELSE spdb_vectors_[n]]
         /\ erased' =
              { IF v.id \in held THEN SpdbVectorSort(v) ELSE v : v \in erased }
  /\ iterPc' = [iterPc EXCEPT ![it] = "iterated"]
  /\ UNCHANGED << n_buckets, items_, nextOf, num_elements_, immutable_,
                  rwReaders, rwWriter, opKey, opPc, opLoc, opRes, iterOut >>
  /\ UNCHANGED << vectors_created, sortPc, sort_iter_anchor, last, markPc,
                  lifePc, iterImmutable, iter_anchor, iterAppended,
                  iterStarted, iterSnapshot >>
  /\ UNCHANGED << wbmVars, pickerVars, collabVars, lockVars,
                  initiationVars, cfVars, slotVars,
                  level0Vars, selectVars >>

(***************************************************************************)
(* The end of the memtable: ~HashSpdRep calls MarkReadOnly, and the sort   *)
(* thread is joined.                                                       *)
(***************************************************************************)
\* ~HashSpdRep: MarkReadOnly(), no caller being inside the memtable
Destroy ==
  /\ lifePc = "alive"
  /\ markPc = "idle"
  /\ \A h \in Ops : opPc[h] \in {"idle", "done"}
  /\ \A it \in Iters : iterPc[it] \in {"idle", "empty", "iterated", "fault"}
  /\ ~SortThreadMutexHeld
  /\ immutable_' = TRUE
  /\ markPc' = "notify"
  /\ lifePc' = "dtor"
  /\ UNCHANGED << n_buckets, items_, nextOf, spdb_vectors_, num_elements_,
                  rwReaders, rwWriter, opKey, opPc, opLoc, opRes, iterOut >>
  /\ UNCHANGED << vectors_created, erased, sortPc, sort_iter_anchor, last,
                  iterPc, iterImmutable, iter_anchor, iterAppended,
                  iterStarted, iterSnapshot, iterKeys >>
  /\ UNCHANGED << wbmVars, pickerVars, collabVars, lockVars,
                  initiationVars, cfVars, slotVars,
                  level0Vars, selectVars >>

\* sort_thread_.join() returns
JoinSortThread ==
  /\ lifePc = "join"
  /\ sortPc = "terminated"
  /\ lifePc' = "destroyed"
  /\ UNCHANGED << n_buckets, items_, nextOf, spdb_vectors_, num_elements_,
                  immutable_, rwReaders, rwWriter, opKey, opPc, opLoc, opRes,
                  iterOut >>
  /\ UNCHANGED << vectors_created, erased, sortPc, sort_iter_anchor, last,
                  markPc, iterPc, iterImmutable, iter_anchor, iterAppended,
                  iterStarted, iterSnapshot, iterKeys >>
  /\ UNCHANGED << wbmVars, pickerVars, collabVars, lockVars,
                  initiationVars, cfVars, slotVars,
                  level0Vars, selectVars >>

(***************************************************************************)
(* The memtable with its callers.                                          *)
(***************************************************************************)
InitMem ==
  /\ InitLocks
  /\ n_buckets \in 1..MaxBuckets
  /\ items_ = [b \in 0..(MaxBuckets - 1) |-> 0]
  /\ nextOf = [h \in Ops |-> 0]
  /\ spdb_vectors_ = << NewSpdbVector(1) >>
  /\ num_elements_ = 0
  /\ immutable_ = FALSE
  /\ rwReaders = {}
  /\ rwWriter = 0
  /\ opKey = [h \in Ops |-> 0]
  /\ opPc = [h \in Ops |-> "idle"]
  /\ opLoc = [h \in Ops |-> 0]
  /\ opRes = [h \in Ops |-> "none"]
  /\ iterOut = << 0 >>
  /\ vectors_created = 1
  /\ erased = {}
  /\ sortPc = "start"
  /\ sort_iter_anchor = 0
  /\ last = 0
  /\ markPc = "idle"
  /\ lifePc = "alive"
  /\ iterPc = [it \in Iters |-> "idle"]
  /\ iterImmutable = [it \in Iters |-> FALSE]
  /\ iter_anchor = [it \in Iters |-> << >>]
  /\ iterAppended = [it \in Iters |-> FALSE]
  /\ iterStarted = [it \in Iters |-> {}]
  /\ iterSnapshot = [it \in Iters |-> {}]
  /\ iterKeys = [it \in Iters |-> << 0 >>]

\* InsertKey: SpdbHashTable::Add
NextHashAdd ==
  \/ \E h \in Ops : HashAddLock(h)
  \/ \E h \in Ops : BucketAddWalk(h)
  \/ \E h \in Ops : BucketAddLinkNext(h)
  \/ \E h \in Ops : BucketAddLinkLoc(h)

\* InsertKey: SpdbVectorContainer::Insert
NextContainerInsert ==
  \/ \E h \in Ops : ContainerInsertCount(h)
  \/ \E h \in Ops : ContainerInsertReadLock(h)
  \/ \E h \in Ops : ContainerInsertReadAdd(h)
  \/ \E h \in Ops : ContainerInsertWriteLock(h)
  \/ \E h \in Ops : ContainerInsertWriteAdd(h)
  \/ \E h \in Ops : ContainerInsertNotify(h)

\* InsertKey, from the hash table to the container
NextInsertKey == NextHashAdd \/ NextContainerInsert

NextMarkReadOnly ==
  \/ MarkReadOnly
  \/ MarkReadOnlyNotify

NextInsert ==
  \/ \E h \in Ops, k \in Keys : Allocate(h, k)
  \/ NextInsertKey

NextMem ==
  \/ NextInsert
  \/ NextMarkReadOnly
  \/ IterateReadOnly

NextSortThread ==
  \/ SortThreadStart
  \/ SortThreadWake
  \/ SortThreadReadLast
  \/ SortThreadSort
  \/ SortThreadTryMerge

NextDestroy ==
  \/ Destroy
  \/ JoinSortThread

\* the construction and the use of an iterator
NextIteratorSteps ==
  \/ \E it \in Iters : InitIteratorLoad(it)
  \/ \E it \in Iters : InitIteratorImmutable(it)
  \/ \E it \in Iters : InitIteratorPush(it)
  \/ \E it \in Iters : InitIteratorNotify(it)
  \/ \E it \in Iters : InitIteratorEmptyTail(it)
  \/ \E it \in Iters : InitIteratorDecrementBegin(it)
  \/ \E it \in Iters : IterateAnchors(it)

NextIterator ==
  \/ \E it \in Iters : GetIterator(it)
  \/ NextIteratorSteps

(***************************************************************************)
(* HybridCompactionPicker: the layout of the hyper levels.                 *)
(***************************************************************************)
HyperLevels == 0..MaxHyperLevels

\* static constexpr s_minNumHyperLevels
s_minNumHyperLevels == 1

LastLevelInHyper(hyperLevelNum) == hyperLevelNum * LevelsInHyper

FirstLevelInHyper(hyperLevelNum) ==
  IF hyperLevelNum = 0 THEN 0 ELSE LastLevelInHyper(hyperLevelNum - 1) + 1

GetHyperLevelNum(level) ==
  IF level = 0 THEN 0 ELSE ((level - 1) \div LevelsInHyper) + 1

\* LastLevel() when curNumOfHyperLevels_ is cur
LastLevel(cur) == LastLevelInHyper(cur) + 1

\* vstorage->num_levels() levels
Levels == 0..LastLevel(MaxHyperLevels)

SetMax(S) == CHOOSE x \in S : \A y \in S : y <= x
SetMin(S) == CHOOSE x \in S : \A y \in S : x <= y

\* PrevPlace: setEmpty() and empty()
PrevPlaceEmpty == [outputLevel |-> -1, lastKeyEmpty |-> TRUE]
IsPrevPlaceEmpty(p) == p.outputLevel = -1

\* CompactionReason
kRearangeCompaction == "kFIFOTtl"

\* a Compaction: the levels of its inputs, inputs[0].level, its output level,
\* its reason and is_trivial_move_
NewCompaction(inputs, output_level, reason) ==
  [inputs |-> inputs, start_level |-> SetMin(inputs),
   output_level |-> output_level, reason |-> reason,
   is_trivial_move |-> FALSE]

\* nullptr
NoCompaction ==
  [inputs |-> {}, start_level |-> -1, output_level |-> -1, reason |-> "none",
   is_trivial_move |-> FALSE]

\* Compaction::set_is_trivial_move(true)
set_is_trivial_move(compact) == [compact EXCEPT !.is_trivial_move = TRUE]

(***************************************************************************)
(* BuildCompactionDescriptors and the predicates over the descriptors      *)
(***************************************************************************)
InProgress == 1..Len(compactions_in_progress_)

\* the hyper level a running compaction is counted in
DescriptorOf(compact, cur) ==
  IF compact.start_level >= LastLevel(cur) THEN cur
  ELSE GetHyperLevelNum(compact.start_level)

nCompactions(hyperLevelNum, cur) ==
  IF hyperLevelNum = 0
  THEN \* level0_compactions_in_progress()->size()
       Cardinality({ n \in InProgress :
                       compactions_in_progress_[n].start_level = 0 })
  ELSE Cardinality({ n \in InProgress :
                       /\ compactions_in_progress_[n].start_level # 0
                       /\ DescriptorOf(compactions_in_progress_[n], cur)
                            = hyperLevelNum })

hasRearange(hyperLevelNum, cur) ==
  \E n \in InProgress :
    /\ compactions_in_progress_[n].start_level # 0
    /\ DescriptorOf(compactions_in_progress_[n], cur) = hyperLevelNum
    /\ compactions_in_progress_[n].reason = kRearangeCompaction

rearangeRunning ==
  \E n \in InProgress :
    /\ compactions_in_progress_[n].start_level # 0
    /\ compactions_in_progress_[n].reason = kRearangeCompaction

manualComapctionRunning ==
  \E n \in InProgress :
    compactions_in_progress_[n].reason = "kManualCompaction"

MayRunCompaction(hyperLevelNum, cur) ==
  /\ nCompactions(hyperLevelNum, cur) = 0
  /\ (hyperLevelNum = cur \/ ~hasRearange(hyperLevelNum + 1, cur))

MayRunRearange(hyperLevelNum, cur) ==
  /\ hyperLevelNum > 0
  /\ ~rearangeRunning
  /\ nCompactions(hyperLevelNum, cur) = 0

MayStartLevelCompaction_AnyTime(hyperLevelNum, cur, prev) ==
  ~ /\ hyperLevelNum # cur
    /\ IsPrevPlaceEmpty(prev[hyperLevelNum])
    /\ levelNonEmpty[LastLevelInHyper(hyperLevelNum) + 1]

MayStartLevelCompaction_EmptyCursor(hyperLevelNum, cur, prev) ==
  IF nCompactions(hyperLevelNum, cur) > 0 THEN FALSE
  ELSE IF /\ hyperLevelNum # cur
          /\ ~IsPrevPlaceEmpty(prev[hyperLevelNum])
          /\ levelNonEmpty[LastLevelInHyper(hyperLevelNum) + 1]
       THEN FALSE
       ELSE TRUE

MayStartLevelCompaction(hyperLevelNum, cur, prev) ==
  IF nCompactions(hyperLevelNum, cur) > 0 THEN FALSE
  ELSE IF /\ hyperLevelNum # cur
          /\ IsPrevPlaceEmpty(prev[hyperLevelNum])
          /\ levelNonEmpty[LastLevelInHyper(hyperLevelNum) + 1]
       THEN FALSE
       ELSE TRUE

\* LevelNeedsRearange over the levels of vstorage
LevelNeedsRearangeIn(vstorage, hyperLevelNum, firstLevel) ==
  IF hyperLevelNum = 0 THEN FALSE
  ELSE \E l1, l2 \in firstLevel..LastLevelInHyper(hyperLevelNum) :
         l1 < l2 /\ vstorage[l1] /\ ~vstorage[l2]

LevelNeedsRearange(hyperLevelNum, firstLevel) ==
  LevelNeedsRearangeIn(levelNonEmpty, hyperLevelNum, firstLevel)

(***************************************************************************)
(* The builders of PickCompaction.  What the picker reads of sizes, file   *)
(* counts and keys is an input of the call:                                *)
(*   dbSize       "fits", "over" (actualDbSize > sizeToCompact * spaceAmp) *)
(*                or "far_over" (> sizeToCompact * spaceAmp * 1.2)         *)
(*   hyperSmall   lastHyperLevelSize * spaceAmp < actualDbSize             *)
(*   l0Enough     LevelFiles(0).size() >= l0_threshold                     *)
(*   needLevel    the hyper level whose size or forced level asks for a    *)
(*                level compaction (0: none)                               *)
(*   keyGreater   the largest key of the hyper level is after lastKey      *)
(*   intersects   the output level has files in the selected key range     *)
(*   upperEmpty   no file of the upper levels was selected                 *)
(*   lastFileWasSelected                                                   *)
(*   reduce       the last level has too many files, a run of them small   *)
(*   l0Trigger    LevelFiles(0).size() >= level0_compaction_trigger_       *)
(*   manyFiles    LevelFiles(LastLevel()).size() > max_open_files_ / 2     *)
(***************************************************************************)
\* InitCf: curNumOfHyperLevels_
InitCf ==
  LET nonEmpty == { level \in Levels : levelNonEmpty[level] }
      lastNonEmpty == IF nonEmpty = {} THEN 0 ELSE SetMax(nonEmpty)
  IN IF lastNonEmpty = 0 THEN s_minNumHyperLevels
     ELSE IF GetHyperLevelNum(lastNonEmpty - 1) > s_minNumHyperLevels
          THEN GetHyperLevelNum(lastNonEmpty - 1)
          ELSE s_minNumHyperLevels

\* what the options of a column family can be: min_merge_width from below
\* s_minLevelsToMerge to above s_maxLevelsToMerge
CfOptions ==
  [min_merge_width : 0..(s_maxLevelsToMerge + 1),
   write_buffer_size : 1..MaxWriteBufferSize,
   level0_file_num_compaction_trigger : 1..(s_maxLevelsToMerge + 1)]

\* the options the other specifications run the picker with
QuietOptions ==
  [min_merge_width |-> s_minLevelsToMerge,
   write_buffer_size |-> 1,
   level0_file_num_compaction_trigger |-> s_minLevelsToMerge]

\* vstorage->num_levels(): the levels of Levels, or only those one hyper
\* level needs
AllLevels == LastLevel(MaxHyperLevels) + 1
NumLevels == {LastLevel(1) + 1, AllLevels}

\* the constructor: maxNumHyperLevels_, level0_compaction_trigger_,
\* multiplier_ and sizeToCompact_
Constructed(options, levels) ==
  /\ mutable_cf_options = options
  /\ num_levels = levels
  /\ maxNumHyperLevels_ = s_minNumHyperLevels
  /\ level0_compaction_trigger_ = s_minLevelsToMerge
  /\ multiplier_ = [h \in 0..s_maxNumHyperLevels |-> s_minLevelsToMerge]
  /\ sizeToCompact_ = [h \in 0..s_maxNumHyperLevels |-> 0]

\* InitCf: requiredMult
RequiredMult(min_merge_width) ==
  IF \/ min_merge_width < s_minLevelsToMerge
     \/ min_merge_width > s_maxLevelsToMerge
  THEN s_maxLevelsToMerge
  ELSE min_merge_width

\* InitCf: the loop over hyperLevelNum < s_maxNumHyperLevels; the last
\* entry of each array keeps what the constructor wrote
InitCfMultiplier(options) ==
  [h \in 0..s_maxNumHyperLevels |->
     IF h < s_maxNumHyperLevels THEN RequiredMult(options.min_merge_width)
     ELSE multiplier_[h]]

RECURSIVE InitCfSize(_, _)
InitCfSize(hyperLevelNum, options) ==
  LET before == IF hyperLevelNum = 0 THEN options.write_buffer_size
                ELSE InitCfSize(hyperLevelNum - 1, options)
  IN (before * RequiredMult(options.min_merge_width)) % SizeToCompactMod

InitCfSizeToCompact(options) ==
  [h \in 0..s_maxNumHyperLevels |->
     IF h < s_maxNumHyperLevels THEN InitCfSize(h, options)
     ELSE sizeToCompact_[h]]

\* InitCf: maxNumHyperLevels_
InitCfMaxNumHyperLevels(levels) ==
  IF GetHyperLevelNum(levels - 2) > s_minNumHyperLevels
  THEN GetHyperLevelNum(levels - 2)
  ELSE s_minNumHyperLevels

\* InitCf: level0_compaction_trigger_
InitCfLevel0Trigger(options) ==
  IF RequiredMult(options.min_merge_width)
       < options.level0_file_num_compaction_trigger
  THEN RequiredMult(options.min_merge_width)
  ELSE options.level0_file_num_compaction_trigger

\* InitCf: what it sets beside curNumOfHyperLevels_
InitCfLayout ==
  /\ maxNumHyperLevels_' = InitCfMaxNumHyperLevels(num_levels)
  /\ multiplier_' = InitCfMultiplier(mutable_cf_options)
  /\ sizeToCompact_' = InitCfSizeToCompact(mutable_cf_options)
  /\ level0_compaction_trigger_' = InitCfLevel0Trigger(mutable_cf_options)

RearangeLevel_OneLevel(hyperLevelNum, prev) ==
  LET levels == FirstLevelInHyper(hyperLevelNum)
                  ..LastLevelInHyper(hyperLevelNum)
      empties == { l \in levels : ~levelNonEmpty[l] }
      inputs == { l \in levels : l < SetMax(empties) /\ levelNonEmpty[l] }
  IN IF empties = {} THEN NoCompaction
     ELSE IF inputs = {} THEN NoCompaction
     ELSE set_is_trivial_move(
            NewCompaction({SetMax(inputs)}, SetMax(empties),
                          kRearangeCompaction))

RearangeLevel_FirstEmpty(hyperLevelNum, prev) ==
  LET levels == FirstLevelInHyper(hyperLevelNum)
                  ..LastLevelInHyper(hyperLevelNum)
      empties == { l \in levels : ~levelNonEmpty[l] }
      inputs == { l \in levels : l < SetMin(empties) /\ levelNonEmpty[l] }
  IN IF empties = {} THEN NoCompaction
     ELSE IF inputs = {} THEN NoCompaction
     ELSE set_is_trivial_move(
            NewCompaction(inputs, SetMin(empties), kRearangeCompaction))

RearangeLevel(hyperLevelNum, prev) ==
  LET lastLevelInHyper == LastLevelInHyper(hyperLevelNum)
      firstLevelInHyper ==
        IF ~IsPrevPlaceEmpty(prev[hyperLevelNum - 1])
        THEN prev[hyperLevelNum - 1].outputLevel + 1
        ELSE FirstLevelInHyper(hyperLevelNum)
      empties == { l \in firstLevelInHyper..lastLevelInHyper :
                     ~levelNonEmpty[l] }
  IN IF /\ ~IsPrevPlaceEmpty(prev[hyperLevelNum - 1])
        /\ firstLevelInHyper >= lastLevelInHyper
     THEN NoCompaction
     ELSE IF empties = {} THEN NoCompaction
     ELSE LET outputLevel == SetMax(empties)
              inputs == { l \in firstLevelInHyper..(outputLevel - 1) :
                            levelNonEmpty[l] }
          IN IF inputs = {} THEN NoCompaction
             ELSE set_is_trivial_move(
                    NewCompaction(inputs, outputLevel, kRearangeCompaction))

RearangeFirst_Skipped(hyperLevelNum, cur, prev) ==
  [prev |-> prev, ret |-> NoCompaction]

\* PickCompaction: the loop "rearange first", from hyperLevelNum on
RECURSIVE RearangeFirst(_, _, _)
RearangeFirst(hyperLevelNum, cur, prev) ==
  IF hyperLevelNum > cur THEN [prev |-> prev, ret |-> NoCompaction]
  ELSE
    LET idle == nCompactions(hyperLevelNum - 1, cur) = 0
        prev1 == IF idle /\ prev[hyperLevelNum - 1].lastKeyEmpty
                 THEN [prev EXCEPT ![hyperLevelNum - 1] = PrevPlaceEmpty]
                 ELSE prev
        needed == /\ MayRunRearange(hyperLevelNum, cur)
                  /\ LevelNeedsRearange(hyperLevelNum,
                                        FirstLevelInHyper(hyperLevelNum))
        prev2 == IF needed /\ idle
                 THEN [prev1 EXCEPT ![hyperLevelNum - 1] = PrevPlaceEmpty]
                 ELSE prev1
        startLevel == IF idle THEN FirstLevelInHyper(hyperLevelNum)
                      ELSE prev1[hyperLevelNum - 1].outputLevel + 1
        ret == IF needed /\ LevelNeedsRearange(hyperLevelNum, startLevel)
               THEN RearangeLevel(hyperLevelNum, prev2)
               ELSE NoCompaction
    IN IF ret # NoCompaction THEN [prev |-> prev2, ret |-> ret]
       ELSE RearangeFirst(hyperLevelNum + 1, cur, prev2)

\* CheckDbSize: does the database move to one more hyper level
CheckDbSizeGrows(cur, in) ==
  /\ levelNonEmpty[LastLevel(cur)]
  /\ cur < MaxHyperLevels
  /\ in.dbSize # "fits"
  /\ \/ in.dbSize = "far_over"
     \/ in.hyperSmall /\ levelNonEmpty[FirstLevelInHyper(cur) + 3]
     \/ levelNonEmpty[FirstLevelInHyper(cur) + 1]

CheckDbSize(cur) ==
  NewCompaction({LastLevel(cur)}, LastLevel(cur + 1), kRearangeCompaction)

\* MoveSstToLastLevel: its loop starts at its bound, so it returns nullptr
MoveSstToLastLevel == NoCompaction

Level0OutputLevel_DeepestEmpty ==
  IF levelNonEmpty[FirstLevelInHyper(1)] THEN -1
  ELSE SetMax({ l \in FirstLevelInHyper(1)..LastLevelInHyper(1) :
                  ~levelNonEmpty[l] })

\* PickLevel0Compaction: the output level, or -1 when level 1 has no place
Level0OutputLevel ==
  IF levelNonEmpty[FirstLevelInHyper(1)] THEN -1
  ELSE SetMax({ l \in FirstLevelInHyper(1)..LastLevelInHyper(1) :
                  \A m \in (FirstLevelInHyper(1) + 1)..l :
                    ~levelNonEmpty[m] })

PickLevel0Compaction ==
  IF Level0OutputLevel = -1 THEN NoCompaction
  ELSE NewCompaction({0}, Level0OutputLevel, "kLevelL0FilesNum")

\* PickLevelCompaction: the output level
LevelOutputLevel(hyperLevelNum, cur, prev, in) ==
  IF hyperLevelNum # cur
  THEN IF ~IsPrevPlaceEmpty(prev[hyperLevelNum]) /\ in.keyGreater
       THEN prev[hyperLevelNum].outputLevel
       ELSE SetMax({ l \in (LastLevelInHyper(hyperLevelNum) + 1)
                             ..LastLevelInHyper(hyperLevelNum + 1) :
                       \A m \in (LastLevelInHyper(hyperLevelNum) + 2)..l :
                         ~levelNonEmpty[m] })
  ELSE LastLevelInHyper(hyperLevelNum) + 1

\* SelectNBuffers: upper_level
UpperLevel(hyperLevelNum, prev) ==
  IF /\ ~IsPrevPlaceEmpty(prev[hyperLevelNum - 1])
     /\ FirstLevelInHyper(hyperLevelNum) + 3
          <= prev[hyperLevelNum - 1].outputLevel
  THEN prev[hyperLevelNum - 1].outputLevel + 1
  ELSE FirstLevelInHyper(hyperLevelNum) + 3

\* SelectNBuffers: the levels of inputs, {} when it returns false
SelectNBuffers(outputLevel, hyperLevelNum, prev, in) ==
  LET lowest_level == LastLevelInHyper(hyperLevelNum)
      upper_level == UpperLevel(hyperLevelNum, prev)
      selected == { l \in upper_level..lowest_level : levelNonEmpty[l] }
      outputEmpty == ~levelNonEmpty[outputLevel] \/ ~in.intersects
      trivial_move ==
        outputEmpty /\ (Cardinality(selected) <= 2 \/ in.upperEmpty)
  IN IF ~levelNonEmpty[lowest_level] \/ upper_level > lowest_level THEN {}
     ELSE IF trivial_move THEN {lowest_level}
     ELSE selected \cup {outputLevel}

PickLevelCompaction(hyperLevelNum, cur, prev, in) ==
  LET outputLevel == LevelOutputLevel(hyperLevelNum, cur, prev, in)
      inputs == SelectNBuffers(outputLevel, hyperLevelNum, prev, in)
      ret == NewCompaction(inputs, outputLevel, "kLevelMaxLevelSize")
      trivial_compaction == Cardinality(inputs) = 1
  IN IF inputs = {} THEN NoCompaction
     ELSE IF trivial_compaction THEN set_is_trivial_move(ret)
     ELSE ret

\* NeedToRunLevelCompaction
NeedToRunLevelCompaction(hyperLevelNum, in) ==
  IF hyperLevelNum = 0 THEN levelNonEmpty[0] /\ in.l0Trigger
  ELSE /\ levelNonEmpty[LastLevelInHyper(hyperLevelNum)]
       /\ in.needLevel = hyperLevelNum

\* PickCompaction: the loop over the hyper levels, from hyperLevelNum on
RECURSIVE PickLevels(_, _, _, _)
PickLevels(hyperLevelNum, cur, prev, in) ==
  IF hyperLevelNum > cur THEN NoCompaction
  ELSE LET ret == IF /\ MayStartLevelCompaction(hyperLevelNum, cur, prev)
                     /\ NeedToRunLevelCompaction(hyperLevelNum, in)
                  THEN PickLevelCompaction(hyperLevelNum, cur, prev, in)
                  ELSE NoCompaction
       IN IF ret # NoCompaction THEN ret
          ELSE PickLevels(hyperLevelNum + 1, cur, prev, in)

PickReduceNumFiles(cur) ==
  NewCompaction({LastLevel(cur)}, LastLevel(cur), "kFIFOReduceNumFiles")

(***************************************************************************)
(* PickCompaction, the completion of a compaction, and the flush.          *)
(***************************************************************************)
\* every input of PickCompaction that asks for nothing
QuietInputs ==
  [dbSize |-> "fits", hyperSmall |-> FALSE, l0Enough |-> FALSE,
   needLevel |-> 0, keyGreater |-> FALSE, intersects |-> FALSE,
   upperEmpty |-> FALSE, lastFileWasSelected |-> FALSE, reduce |-> FALSE,
   l0Trigger |-> FALSE, manyFiles |-> FALSE]

\* the inputs of PickCompaction: one builder is asked for at a time, since a
\* builder that is not asked for returns nullptr and changes nothing
PickInputs ==
  { [QuietInputs EXCEPT !.dbSize = d, !.hyperSmall = b] :
      d \in {"fits", "over", "far_over"}, b \in BOOLEAN }
  \cup { [QuietInputs EXCEPT !.l0Enough = TRUE] }
  \cup { [QuietInputs EXCEPT !.needLevel = h, !.keyGreater = k,
                             !.intersects = x, !.upperEmpty = u,
                             !.lastFileWasSelected = f] :
           h \in 1..MaxHyperLevels, k \in BOOLEAN, x \in BOOLEAN,
           u \in BOOLEAN, f \in BOOLEAN }
  \cup { [QuietInputs EXCEPT !.reduce = TRUE] }

\* PickCompaction from "check db size" on: the compaction, the hyper level
\* count and the cursors it leaves
PickAfterRearange(cur, prev, in) ==
  IF /\ MayRunCompaction(cur, cur)
     /\ ~rearangeRunning
     /\ CheckDbSizeGrows(cur, in)
  THEN [cur |-> cur + 1,
        prev |-> [prev EXCEPT ![cur] = PrevPlaceEmpty],
        ret |-> CheckDbSize(cur)]
  ELSE IF /\ MayStartLevelCompaction(0, cur, prev)
          /\ levelNonEmpty[0] /\ in.l0Enough
          /\ PickLevel0Compaction # NoCompaction
  THEN [cur |-> cur,
        prev |-> [prev EXCEPT ![0].outputLevel = Level0OutputLevel],
        ret |-> PickLevel0Compaction]
  ELSE LET ret == PickLevels(1, cur, prev, in) IN
  IF ret # NoCompaction
  THEN LET hyperLevelNum ==
             GetHyperLevelNum(SetMax(ret.inputs \ {ret.output_level}))
       IN [cur |-> cur,
           prev |-> [prev EXCEPT ![hyperLevelNum] =
                       [outputLevel |-> ret.output_level,
                        lastKeyEmpty |-> in.lastFileWasSelected]],
           ret |-> ret]
  ELSE IF /\ MayStartLevelCompaction(cur, cur, prev)
          /\ levelNonEmpty[LastLevel(cur)] /\ in.reduce
  THEN [cur |-> cur, prev |-> prev, ret |-> PickReduceNumFiles(cur)]
  ELSE [cur |-> cur, prev |-> prev, ret |-> NoCompaction]

\* RegisterCompaction, and what PickCompaction leaves in the picker
Register(picked) ==
  /\ curNumOfHyperLevels_' = picked.cur
  /\ prevSubCompaction_' = picked.prev
  /\ compactions_in_progress_' =
       IF picked.ret = NoCompaction THEN compactions_in_progress_
       ELSE Append(compactions_in_progress_, picked.ret)

\* HybridCompactionPicker::PickCompaction, RegisterCompaction included,
\* reading one of the inputs
PickCompactionWith(inputs) ==
  /\ Len(compactions_in_progress_) < MaxRunning
  /\ LET cur == IF curNumOfHyperLevels_ = 0 THEN InitCf
                ELSE curNumOfHyperLevels_
         first == RearangeFirst(1, cur, prevSubCompaction_)
     IN IF manualComapctionRunning
        THEN Register([cur |-> cur, prev |-> prevSubCompaction_,
                       ret |-> NoCompaction])
        ELSE IF first.ret # NoCompaction
        THEN Register([cur |-> cur, prev |-> first.prev, ret |-> first.ret])
        ELSE \E in \in inputs :
               Register(PickAfterRearange(cur, first.prev, in))
  /\ IF curNumOfHyperLevels_ = 0 THEN InitCfLayout
     ELSE UNCHANGED layoutVars
  /\ UNCHANGED << levelNonEmpty, optionVars >>
  /\ UNCHANGED << needsVars, wbmVars, memVars, collabVars, lockVars,
                  initiationVars, slotVars, selectVars >>

PickCompaction == PickCompactionWith(PickInputs) /\ UNCHANGED level0Vars

\* does a compaction take every file of its input levels
TakesWholeLevels(compact) == compact.reason = kRearangeCompaction

\* the levels a compaction can leave without files
MayEmpty(compact) ==
  IF TakesWholeLevels(compact) THEN {compact.inputs}
  ELSE IF compact.reason = "kFIFOReduceNumFiles" THEN {{}}
  ELSE SUBSET (compact.inputs \ {compact.output_level})

\* the levels once the result of a compaction is installed: the output
\* level has files, the levels in emptied have none left
InstallCompaction(compact, emptied) ==
  [level \in Levels |->
     IF level = compact.output_level THEN TRUE
     ELSE IF level \in emptied THEN FALSE
     ELSE levelNonEmpty[level]]

\* the engine installs the result of compaction n and unregisters it
CompactionDone(n) ==
  /\ n \in InProgress
  /\ LET compact == compactions_in_progress_[n] IN
       /\ \E emptied \in MayEmpty(compact) :
            levelNonEmpty' = InstallCompaction(compact, emptied)
       /\ compactions_in_progress_' =
            [m \in 1..(Len(compactions_in_progress_) - 1) |->
               IF m < n THEN compactions_in_progress_[m]
               ELSE compactions_in_progress_[m + 1]]
  /\ UNCHANGED << curNumOfHyperLevels_, prevSubCompaction_ >>
  /\ UNCHANGED << needsVars, wbmVars, memVars, collabVars, lockVars,
                  initiationVars, cfVars, slotVars,
                  level0Vars, selectVars >>

\* a flush adds a file to level 0
FlushToLevel0 ==
  /\ ~levelNonEmpty[0]
  /\ levelNonEmpty' = [levelNonEmpty EXCEPT ![0] = TRUE]
  /\ UNCHANGED << compactions_in_progress_, curNumOfHyperLevels_,
                  prevSubCompaction_ >>
  /\ UNCHANGED << needsVars, wbmVars, memVars, collabVars, lockVars,
                  initiationVars, cfVars, slotVars,
                  level0Vars, selectVars >>

\* the levels the running compactions read or write
BusyLevels ==
  UNION { compactions_in_progress_[n].inputs
            \cup {compactions_in_progress_[n].output_level} : n \in InProgress }

\* the engine registers a manual compaction (CompactRange) that rewrites the
\* files of one level no running compaction touches, in that level
ManualCompaction ==
  /\ Len(compactions_in_progress_) < MaxRunning
  /\ \E level \in Levels :
       /\ levelNonEmpty[level]
       /\ level \notin BusyLevels
       /\ compactions_in_progress_' =
            Append(compactions_in_progress_,
                   NewCompaction({level}, level, "kManualCompaction"))
  /\ UNCHANGED << levelNonEmpty, curNumOfHyperLevels_, prevSubCompaction_ >>
  /\ UNCHANGED << needsVars, wbmVars, memVars, collabVars, lockVars,
                  initiationVars, cfVars, slotVars,
                  level0Vars, selectVars >>

(***************************************************************************)
(* PickCompaction with the files of level 0 counted.                       *)
(***************************************************************************)
\* multiplier_[0] and level0_compaction_trigger_ as the call reads them:
\* InitCf has run when PickCompaction comes to level 0
Multiplier0 ==
  IF curNumOfHyperLevels_ = 0 THEN InitCfMultiplier(mutable_cf_options)[0]
  ELSE multiplier_[0]

Level0Trigger ==
  IF curNumOfHyperLevels_ = 0 THEN InitCfLevel0Trigger(mutable_cf_options)
  ELSE level0_compaction_trigger_

\* PickCompaction: l0_threshold
l0_threshold ==
  Min(Level0Trigger, mutable_cf_options.level0_file_num_compaction_trigger)

\* PickLevel0Compaction: size_t maxWidth = multiplier_[0] * 1.5
maxWidth == (Multiplier0 * 3) \div 2

\* PickLevel0Compaction: inputs[0].files.size()
Level0InputFiles(numFilesInL0) ==
  IF numFilesInL0 < maxWidth THEN numFilesInL0 ELSE maxWidth

\* the inputs of a PickCompaction that finds numFilesInL0 files in level 0
PickInputsWith(numFilesInL0) ==
  { [in EXCEPT !.l0Enough = (numFilesInL0 >= l0_threshold)] :
      in \in PickInputs }

\* did this PickCompaction return a compaction of level 0
Level0Picked ==
  /\ Len(compactions_in_progress_') > Len(compactions_in_progress_)
  /\ compactions_in_progress_'[Len(compactions_in_progress_')].reason
       = "kLevelL0FilesNum"

\* PickCompaction on a version whose level 0 holds numFilesInL0 files
PickCompactionLevel0 ==
  \E numFilesInL0 \in 0..MaxL0Files :
    /\ levelNonEmpty[0] <=> numFilesInL0 > 0
    /\ PickCompactionWith(PickInputsWith(numFilesInL0))
    /\ l0Files' = numFilesInL0
    /\ l0Inputs' = IF Level0Picked THEN Level0InputFiles(numFilesInL0)
                   ELSE 0

InitLevel0 ==
  /\ l0Files = 0
  /\ l0Inputs = 0

Level0Unused == InitLevel0

(***************************************************************************)
(* SelectNBuffers from "trivial move ?" on.  inputs holds one entry for    *)
(* every non-empty source level, the uppermost first and lowest_level      *)
(* last, and after them the entry of the output level; files is the number *)
(* of files the selection put into the entry.                              *)
(***************************************************************************)
\* the vectors the selection can leave: selectNBufferFromFirstLevel always
\* takes the first file of lowest_level
SelectedInputs ==
  UNION { { [n \in 1..(count + 1) |-> [level |-> n, files |-> f[n]]] :
              f \in { g \in [1..(count + 1) -> 0..MaxSelectedFiles] :
                        g[count] >= 1 } } :
          count \in 1..MaxSourceLevels }

\* SelectNBuffers: the vector inputs it hands back
TrivialMoveTail(inputs) ==
  LET count == Len(inputs) - 1
      trivial_move == /\ inputs[count + 1].files = 0
                      /\ \A inp \in 0..(count - 3) : inputs[inp + 1].files = 0
  IN IF trivial_move THEN << inputs[count] >> ELSE inputs

\* PickLevelCompaction: trivial_compaction
trivial_compaction(inputs) == Len(inputs) = 1

SelectNBuffersTail ==
  /\ selPc = "selected"
  /\ selOut' = TrivialMoveTail(selInputs)
  /\ selPc' = "returned"
  /\ UNCHANGED selInputs
  /\ UNCHANGED << wbmVars, memVars, pickerVars, collabVars, lockVars,
                  initiationVars, cfVars, slotVars, level0Vars >>

InitSelect ==
  /\ selInputs \in SelectedInputs
  /\ selOut = << >>
  /\ selPc = "selected"

SelectUnused ==
  /\ selInputs = << [level |-> 1, files |-> 1], [level |-> 2, files |-> 0] >>
  /\ selOut = << >>
  /\ selPc = "selected"

(***************************************************************************)
(* NeedsCompaction.                                                        *)
(***************************************************************************)
\* what NeedsCompaction reads of the file counts and sizes: as in PickInputs,
\* one of its tests is asked for at a time
NeedsInputs ==
  { [QuietInputs EXCEPT !.needLevel = h] : h \in 0..MaxHyperLevels }
  \cup { [QuietInputs EXCEPT !.l0Trigger = TRUE] }
  \cup { [QuietInputs EXCEPT !.manyFiles = TRUE] }

\* NeedsCompaction: one pass of the loop "check needs to rearange/compact"
NeedsOnLevel(hyperLevelNum, cur, prev, in) ==
  LET rearangeNeeded ==
        LevelNeedsRearange(hyperLevelNum, FirstLevelInHyper(hyperLevelNum))
  IN IF MayRunRearange(hyperLevelNum, cur) /\ rearangeNeeded THEN TRUE
     ELSE /\ ~rearangeNeeded
          /\ MayStartLevelCompaction(hyperLevelNum, cur, prev)
          /\ NeedToRunLevelCompaction(hyperLevelNum, in)

\* HybridCompactionPicker::NeedsCompaction
NeedsCompaction(in) ==
  IF curNumOfHyperLevels_ = 0 THEN TRUE
  ELSE IF manualComapctionRunning THEN FALSE
  ELSE IF \E hyperLevelNum \in 0..curNumOfHyperLevels_ :
            NeedsOnLevel(hyperLevelNum, curNumOfHyperLevels_,
                         prevSubCompaction_, in)
       THEN TRUE
  ELSE IF levelNonEmpty[LastLevel(curNumOfHyperLevels_)] /\ in.manyFiles
       THEN TRUE
  ELSE FALSE

\* the engine asks NeedsCompaction
NeedsCompactionCall(in) ==
  /\ needsPc = "idle"
  /\ needsPc' = "returned"
  /\ needsIn' = in
  /\ needsRet' = NeedsCompaction(in)
  /\ UNCHANGED << levelNonEmpty, compactions_in_progress_,
                  curNumOfHyperLevels_, prevSubCompaction_ >>
  /\ UNCHANGED << wbmVars, memVars, collabVars, lockVars,
                  initiationVars, cfVars, slotVars,
                  level0Vars, selectVars >>

\* the engine has used the answer
NeedsCompactionReturn ==
  /\ needsPc = "returned"
  /\ needsPc' = "idle"
  /\ needsIn' = QuietInputs
  /\ needsRet' = FALSE
  /\ UNCHANGED << levelNonEmpty, compactions_in_progress_,
                  curNumOfHyperLevels_, prevSubCompaction_ >>
  /\ UNCHANGED << wbmVars, memVars, collabVars, lockVars,
                  initiationVars, cfVars, slotVars,
                  level0Vars, selectVars >>

\* the picker after construction, for a column family with these options
InitPickerWith(options, levels) ==
  /\ levelNonEmpty = [level \in Levels |-> FALSE]
  /\ compactions_in_progress_ = << >>
  /\ curNumOfHyperLevels_ = 0
  /\ prevSubCompaction_ = [h \in HyperLevels |-> PrevPlaceEmpty]
  /\ needsPc = "idle"
  /\ needsIn = QuietInputs
  /\ needsRet = FALSE
  /\ Constructed(options, levels)

InitPicker == InitPickerWith(QuietOptions, AllLevels)

NextPicker ==
  \/ PickCompaction
  \/ \E n \in 1..MaxRunning : CompactionDone(n)
  \/ FlushToLevel0

(***************************************************************************)
(* ScopedPinningPolicy.                                                    *)
(***************************************************************************)
Capacities == {0, 1, MaxCapacity, PinSizeTMod - 1}
Percents == {0, 50, 100, 125}
PinLevels == {0, 1}
PinSizes == {0, 1, 5}
PinUsages == {0, 4, MaxCapacity}
HierarchyCategories == {"TOP_LEVEL", "PARTITION"}
CacheEntryRoles == {"kFilterBlock", "kIndexBlock"}

\* ScopedPinningPolicy::CheckPin
CheckPin(tpi, category, role, size, usage) ==
  LET proposed == (usage + size) % PinSizeTMod IN
  IF tpi.is_last_level_with_data /\ options_.last_level_with_data_percent > 0
  THEN IF proposed >
            ((options_.capacity * options_.last_level_with_data_percent)
               % PinSizeTMod) \div 100
       THEN FALSE ELSE TRUE
  ELSE IF tpi.level > 0 /\ options_.mid_percent > 0
  THEN IF proposed >
            ((options_.capacity * options_.mid_percent) % PinSizeTMod) \div 100
       THEN FALSE ELSE TRUE
  ELSE IF proposed > options_.capacity THEN FALSE
  ELSE TRUE

NoPinArgs ==
  [tpi |-> [level |-> 0, is_last_level_with_data |-> FALSE],
   category |-> "TOP_LEVEL", role |-> "kFilterBlock", size |-> 0, usage |-> 0]

\* a table reader asks the policy whether it may pin a block
CheckPinCall(tpi, category, role, size, usage) ==
  /\ pinPc = "idle"
  /\ pinPc' = "returned"
  /\ pinArgs' = [tpi |-> tpi, category |-> category, role |-> role,
                 size |-> size, usage |-> usage]
  /\ pinRet' = CheckPin(tpi, category, role, size, usage)
  /\ UNCHANGED options_
  /\ UNCHANGED << wbmVars, memVars, pickerVars, tableVars, lockVars,
                  initiationVars, cfVars, slotVars,
                  level0Vars, selectVars >>

CheckPinReturn ==
  /\ pinPc = "returned"
  /\ pinPc' = "idle"
  /\ pinArgs' = NoPinArgs
  /\ pinRet' = FALSE
  /\ UNCHANGED options_
  /\ UNCHANGED << wbmVars, memVars, pickerVars, tableVars, lockVars,
                  initiationVars, cfVars, slotVars,
                  level0Vars, selectVars >>

\* ScopedPinningPolicy::ScopedPinningPolicy(options)
InitPolicy ==
  /\ options_ \in [capacity : Capacities,
                    last_level_with_data_percent : Percents,
                    mid_percent : Percents]
  /\ pinPc = "idle"
  /\ pinArgs = NoPinArgs
  /\ pinRet = FALSE

NextPolicy ==
  \/ \E level \in PinLevels, is_last \in BOOLEAN,
        category \in HierarchyCategories, role \in CacheEntryRoles,
        size \in PinSizes, usage \in PinUsages :
       CheckPinCall([level |-> level, is_last_level_with_data |-> is_last],
                    category, role, size, usage)
  \/ CheckPinReturn

(***************************************************************************)
(* AdaptiveTableFactory.                                                   *)
(***************************************************************************)
\* a null shared_ptr<TableFactory>
NullFactory == "nullptr"

\* the magic numbers of table/format.h and of the table formats
MagicNumbers ==
  {"kPlainTableMagicNumber", "kLegacyPlainTableMagicNumber",
   "kBlockBasedTableMagicNumber", "kLegacyBlockBasedTableMagicNumber",
   "kCuckooTableMagicNumber", "kNullTableMagicNumber", "unidentified"}

\* what ReadFooterFromFile returns
FooterStatuses == {"OK", "Corruption", "IOError"}

\* what a wrapped factory's NewTableReader returns
ReaderStatuses == {"OK", "Corruption"}

\* AdaptiveTableFactory::AdaptiveTableFactory: the four members
AdaptiveTableFactoryMembers(to_write, block_based, plain, cuckoo) ==
  LET plain_ == IF plain = NullFactory THEN "NewPlainTableFactory"
                ELSE plain
      block_based_ == IF block_based = NullFactory
                      THEN "NewBlockBasedTableFactory" ELSE block_based
      cuckoo_ == IF cuckoo = NullFactory THEN "NewCuckooTableFactory"
                 ELSE cuckoo
      to_write_ == IF to_write = NullFactory THEN block_based_ ELSE to_write
  IN [to_write |-> to_write_, block_based |-> block_based_,
      plain |-> plain_, cuckoo |-> cuckoo_]

\* NewTableReader: the member the magic number selects
ReaderFactory_LegacyToBlockBased(magic) ==
  IF magic = "kPlainTableMagicNumber" THEN plain_table_factory_
  ELSE IF magic \in {"kBlockBasedTableMagicNumber",
                     "kLegacyBlockBasedTableMagicNumber",
                     "kLegacyPlainTableMagicNumber"}
  THEN block_based_table_factory_
  ELSE IF magic = "kCuckooTableMagicNumber" THEN cuckoo_table_factory_
  ELSE NullFactory

ReaderFactory(magic) ==
  IF magic \in {"kPlainTableMagicNumber", "kLegacyPlainTableMagicNumber"}
  THEN plain_table_factory_
  ELSE IF magic \in {"kBlockBasedTableMagicNumber",
                     "kLegacyBlockBasedTableMagicNumber"}
  THEN block_based_table_factory_
  ELSE IF magic = "kCuckooTableMagicNumber" THEN cuckoo_table_factory_
  ELSE NullFactory

NoTableArgs ==
  [call |-> "none", footer |-> "OK", magic |-> "unidentified",
   reader |-> "OK"]

\* AdaptiveTableFactory::NewTableReader
NewTableReader(footer, magic, reader) ==
  /\ tablePc = "idle"
  /\ tablePc' = "returned"
  /\ tableArgs' = [call |-> "NewTableReader", footer |-> footer,
                   magic |-> magic, reader |-> reader]
  /\ IF footer # "OK"
     THEN /\ tableRet' = footer
          /\ factoryCalls' = << >>
     ELSE IF ReaderFactory(magic) # NullFactory
     THEN /\ factoryCalls' =
               << [factory |-> ReaderFactory(magic),
                   method |-> "NewTableReader"] >>
          /\ tableRet' = reader
     ELSE /\ tableRet' = "NotSupported"
          /\ factoryCalls' = << >>
  /\ UNCHANGED << table_factory_to_write_, block_based_table_factory_,
                  plain_table_factory_, cuckoo_table_factory_ >>
  /\ UNCHANGED << wbmVars, memVars, pickerVars, policyVars, lockVars,
                  initiationVars, cfVars, slotVars,
                  level0Vars, selectVars >>

\* AdaptiveTableFactory::NewTableBuilder
NewTableBuilder ==
  /\ tablePc = "idle"
  /\ tablePc' = "returned"
  /\ tableArgs' = [NoTableArgs EXCEPT !.call = "NewTableBuilder"]
  /\ factoryCalls' = << [factory |-> table_factory_to_write_,
                         method |-> "NewTableBuilder"] >>
  /\ tableRet' = "TableBuilder"
  /\ UNCHANGED << table_factory_to_write_, block_based_table_factory_,
                  plain_table_factory_, cuckoo_table_factory_ >>
  /\ UNCHANGED << wbmVars, memVars, pickerVars, policyVars, lockVars,
                  initiationVars, cfVars, slotVars,
                  level0Vars, selectVars >>

\* the caller has taken the result
TableCallReturn ==
  /\ tablePc = "returned"
  /\ tablePc' = "idle"
  /\ tableArgs' = NoTableArgs
  /\ factoryCalls' = << >>
  /\ tableRet' = "none"
  /\ UNCHANGED << table_factory_to_write_, block_based_table_factory_,
                  plain_table_factory_, cuckoo_table_factory_ >>
  /\ UNCHANGED << wbmVars, memVars, pickerVars, policyVars, lockVars,
                  initiationVars, cfVars, slotVars,
                  level0Vars, selectVars >>

\* NewAdaptiveTableFactory: each argument is null or a factory of the caller
InitTable ==
  /\ \E to_write \in {NullFactory, "to_write", "block_based", "plain"},
        block_based \in {NullFactory, "block_based"},
        plain \in {NullFactory, "plain"},
        cuckoo \in {NullFactory, "cuckoo"} :
       LET m == AdaptiveTableFactoryMembers(to_write, block_based,
                                            plain, cuckoo)
       IN /\ table_factory_to_write_ = m.to_write
          /\ block_based_table_factory_ = m.block_based
          /\ plain_table_factory_ = m.plain
          /\ cuckoo_table_factory_ = m.cuckoo
  /\ tablePc = "idle"
  /\ tableArgs = NoTableArgs
  /\ factoryCalls = << >>
  /\ tableRet = "none"

NextTable ==
  \/ \E footer \in FooterStatuses, magic \in MagicNumbers,
        reader \in ReaderStatuses : NewTableReader(footer, magic, reader)
  \/ NewTableBuilder
  \/ TableCallReturn

\* the policy and the table factory when a specification does not use them
PolicyUnused ==
  /\ InitPolicy
  /\ options_ = [capacity |-> 0, last_level_with_data_percent |-> 0,
                 mid_percent |-> 0]

TableUnused ==
  /\ InitTable
  /\ table_factory_to_write_ = "NewBlockBasedTableFactory"
  /\ plain_table_factory_ = "NewPlainTableFactory"
  /\ cuckoo_table_factory_ = "NewCuckooTableFactory"

CollabUnused == PolicyUnused /\ TableUnused

(***************************************************************************)
(* The Write Buffer Manager with its callers.                              *)
(***************************************************************************)
InitWBM ==
  /\ buffer_size_ \in {0, BufferSize}
  /\ mutable_limit_ = (buffer_size_ * 7) \div 8
  /\ allow_stall_ \in BOOLEAN
  /\ initiate_flushes_ \in BOOLEAN
  /\ cost_to_cache_ \in BOOLEAN
  /\ memory_used_ = 0
  /\ memory_inactive_ = 0
  /\ memory_being_freed_ = 0
  /\ queue_ = << >>
  /\ stall_active_ = FALSE
  /\ signals = [h \in Handles |-> 0]
  /\ itemPc = [i \in Items |-> "none"]
  /\ aborts = [i \in Items |-> 0]
  /\ rebegun = [i \in Items |-> FALSE]
  /\ writerPc = [h \in Handles |-> "idle"]
  /\ setPc = "idle"
  /\ new_size = 0
  /\ was_enabled = FALSE
  /\ setCalls = 0
  /\ flushPc = "idle"
  /\ local_limit = 0
  /\ local_size = 0
  /\ flushRes = "none"

\* flush initiation before the first call: no flush pending or running,
\* the thread waiting, 'initiators' callbacks registered and the thresholds
\* 'step' and 80% of buffer_size_ plus 'k' steps
InitInitiation(initiators, step, k) ==
  /\ num_initiators_ = initiators
  /\ next_candidate_initiator_idx_ = 0
  /\ num_flushes_to_initiate_ = 0
  /\ num_running_flushes_ = 0
  /\ additional_flush_step_size_ = step
  /\ additional_flush_initiation_size_ =
       (buffer_size_ * 80) \div 100 + k * step
  /\ new_flushes_wakeup_ = FALSE
  /\ initPc = "wait"
  /\ calls = << >>
  /\ was_flush_initiated = FALSE
  /\ evalPc = [i \in Items |-> "idle"]
  /\ new_memory_used = [i \in Items |-> 0]
  /\ curr_memory_used = 0
  /\ loaded_being_freed = 0

\* a WBM that initiates no flush
InitiationUnused == InitInitiation(0, 0, 0)

\* the accounting calls of one chunk, without an abort
NextAccounting ==
  \/ \E i \in Items : ReserveMem(i)
  \/ \E i \in Items : ScheduleFreeMem(i)
  \/ \E i \in Items : FreeMemBegin(i)
  \/ \E i \in Items : FreeMemUsed(i)
  \/ \E i \in Items : FreeMemInactive(i)
  \/ \E i \in Items : FreeMemBeingFreed(i)
  \/ \E i \in Items : FreeMemMaybeEndWriteStall(i)

NextAbort ==
  \/ \E i \in Items : FreeMemAbortedInactive(i)
  \/ \E i \in Items : FreeMemAbortedBeingFreed(i)
  \/ \E i \in Items : FreeMemBeginAfterAbort(i)

\* the accounting calls of the chunks of a WBM that initiates flushes; a
\* chunk is scheduled for freeing after its ReserveMem has returned
NextAccountingInitiating ==
  \/ \E i \in Items : ReserveMemInitiating(i)
  \/ \E i \in Items : ReevaluateNeedForMoreFlushes(i)
  \/ \E i \in Items : evalPc[i] = "idle" /\ ScheduleFreeMem(i)
  \/ \E i \in Items : FreeMemBegin(i)
  \/ \E i \in Items : FreeMemUsedInitiating(i)
  \/ \E i \in Items : FreeMemInactive(i)
  \/ \E i \in Items : FreeMemBeingFreed(i)
  \/ \E i \in Items : FreeMemMaybeEndWriteStall(i)

NextInitiationThread ==
  \/ InitiateFlushesThreadWake
  \/ \E initiated \in BOOLEAN : InitiateAdditionalFlush(initiated)

\* flush initiation: callers reserve and free chunks, flushes start and
\* end, and the initiation thread calls the initiators
NextInitiation ==
  \/ NextAccountingInitiating
  \/ FlushStarted
  \/ FlushEnded
  \/ NextInitiationThread

InitInitiating ==
  /\ InitWBM
  /\ buffer_size_ = BufferSize
  /\ initiate_flushes_
  /\ ~allow_stall_
  /\ ~cost_to_cache_
  /\ \E initiators \in 1..MaxInitiators, step \in 1..MaxFlushStep,
        k \in 0..1 : InitInitiation(initiators, step, k)

NextStall ==
  \/ \E h \in Handles : ObserveShouldStall(h)
  \/ \E h \in Handles : BeginWriteStall(h)
  \/ \E h \in Handles : BlockReturns(h)

\* the accounting of the WBM: callers reserve, schedule, begin, abort and
\* free chunks concurrently; no writer asks whether to stall
NextWBM == NextAccounting \/ NextAbort

\* a WBM nobody uses and a memtable nobody uses
WBMUnused ==
  /\ InitWBM
  /\ buffer_size_ = 0
  /\ ~allow_stall_
  /\ ~initiate_flushes_
  /\ ~cost_to_cache_

MemUnused == InitMem /\ n_buckets = 1

InitSpecWBM == InitWBM /\ MemUnused /\ InitPicker /\ CollabUnused
  /\ InitiationUnused /\ SlotsUnused
  /\ Level0Unused /\ SelectUnused

SpecWBM == InitSpecWBM /\ [][NextWBM]_vars

\* flush initiation of a WBM with a buffer size and initiators
InitSpecInitiation ==
  InitInitiating /\ MemUnused /\ InitPicker /\ CollabUnused
  /\ SlotsUnused
  /\ Level0Unused /\ SelectUnused

SpecInitiation == InitSpecInitiation /\ [][NextInitiation]_vars

\* the stall protocol of the WBM: callers reserve and free chunks, writers
\* stall on the WBM
NextWBMStall == NextAccounting \/ NextStall

SpecStall == InitSpecWBM /\ [][NextWBMStall]_vars

\* the WBM retuned at runtime: callers reserve and free chunks, one thread
\* calls SetBufferSize and the write thread calls ShouldFlush; a failed
\* assertion ends the process
NextSetBufferSize ==
  \/ \E n \in NewSizes : SetBufferSizeStoreSize(n)
  \/ SetBufferSizeStoreLimit
  \/ SetBufferSizeAssert
  \/ SetBufferSizeMaybeEndWriteStall

NextShouldFlush ==
  \/ ShouldFlushEnabled
  \/ ShouldFlushLoadLimit
  \/ ShouldFlushLoadSize

NextResize ==
  /\ setPc # "assert_failed"
  /\ (NextAccounting \/ NextSetBufferSize \/ NextShouldFlush)

SpecResize == InitSpecWBM /\ [][NextResize]_vars

\* the memtable: concurrent inserts, then mark_read_only and one iteration
InitSpecMem == InitMem /\ WBMUnused /\ InitPicker /\ CollabUnused
  /\ InitiationUnused /\ SlotsUnused
  /\ Level0Unused /\ SelectUnused

SpecMem == InitSpecMem /\ [][NextMem]_vars

\* the memtable with its threads: concurrent inserts, readers that construct
\* iterators, the sort thread, mark_read_only and the destructor
\* The inserting threads are interchangeable: the one with the least
\* number is the one that starts first.
InOrder(pc, n) == IF n = 1 THEN TRUE ELSE pc[n - 1] # "idle"

\* One reader constructs the iterators, one after the other, and may use
\* each of them at any later time.
ReaderFree(it) ==
  IF it = 1 THEN TRUE
  ELSE iterPc[it - 1] \in {"empty", "built", "iterated", "fault"}

NextMemThreads ==
  \/ \E h \in ThreadOps, k \in Keys : InOrder(opPc, h) /\ Allocate(h, k)
  \/ NextInsertKey
  \/ NextMarkReadOnly
  \/ NextSortThread
  \/ \E it \in Iters : ReaderFree(it) /\ GetIterator(it)
  \/ NextIteratorSteps
  \/ NextDestroy

InitSpecMemThreads ==
  MemUnused /\ WBMUnused /\ InitPicker /\ CollabUnused
  /\ InitiationUnused /\ SlotsUnused
  /\ Level0Unused /\ SelectUnused

SpecMemThreads == InitSpecMemThreads /\ [][NextMemThreads]_vars

\* the container under concurrent inserts of distinct keys: every InsertKey
\* call has linked its handle into the one bucket and is about to call
\* SpdbVectorContainer::Insert; the sort thread runs beside the writers
InitAppend ==
  /\ InitLocks
  /\ n_buckets = 1
  /\ items_ = [b \in 0..(MaxBuckets - 1) |-> IF b = 0 THEN 1 ELSE 0]
  /\ nextOf = [h \in Ops |-> IF h < NInserts THEN h + 1 ELSE 0]
  /\ spdb_vectors_ = << NewSpdbVector(1) >>
  /\ num_elements_ = 0
  /\ immutable_ = FALSE
  /\ rwReaders = {}
  /\ rwWriter = 0
  /\ opKey = [h \in Ops |-> h]
  /\ opPc = [h \in Ops |-> "cont_count"]
  /\ opLoc = [h \in Ops |-> 0]
  /\ opRes = [h \in Ops |-> "none"]
  /\ iterOut = << 0 >>
  /\ vectors_created = 1
  /\ erased = {}
  /\ sortPc = "start"
  /\ sort_iter_anchor = 0
  /\ last = 0
  /\ markPc = "idle"
  /\ lifePc = "alive"
  /\ iterPc = [it \in Iters |-> "idle"]
  /\ iterImmutable = [it \in Iters |-> FALSE]
  /\ iter_anchor = [it \in Iters |-> << >>]
  /\ iterAppended = [it \in Iters |-> FALSE]
  /\ iterStarted = [it \in Iters |-> {}]
  /\ iterSnapshot = [it \in Iters |-> {}]
  /\ iterKeys = [it \in Iters |-> << 0 >>]

\* the container with more than kMergedVectorsMax vectors, the sort thread
\* not having run since they were pushed: SortThread is created by the
\* constructor and the notifications sent before it waits are lost.  The
\* vector at position n holds the keys of its rank from the end, so that a
\* merge has to reverse the order of the vectors; the vectors over the merge
\* threshold are full.  The inserts that filled the vectors have returned,
\* NMergeInserts more have linked their handles into the bucket.
MergeBase(n) == (MergeLen - n) * VectorLimit

PreloadedItems(n, big) ==
  IF big THEN [k \in 1..VectorLimit |-> MergeBase(n) + VectorLimit + 1 - k]
  ELSE << MergeBase(n) + 1 >>

PreloadedVector(n, big) ==
  [id |-> n, items |-> PreloadedItems(n, big),
   n_elements_ |-> Len(PreloadedItems(n, big)), sorted_ |-> FALSE]

MergeOps == { h \in Ops : h <= NMergeInserts }

InitMerge ==
  /\ InitLocks
  /\ \E bigs \in SUBSET (1..(MergeLen - 1)) :
       /\ Cardinality(bigs) <= MaxBig
       /\ spdb_vectors_ = [n \in 1..MergeLen |-> PreloadedVector(n, n \in bigs)]
  /\ n_buckets = 1
  /\ items_ = [b \in 0..(MaxBuckets - 1) |-> IF b = 0 THEN 1 ELSE 0]
  /\ nextOf = [h \in Ops |-> IF h < NMergeInserts THEN h + 1 ELSE 0]
  /\ num_elements_ = MergeLen
  /\ immutable_ = FALSE
  /\ rwReaders = {}
  /\ rwWriter = 0
  /\ opKey = [h \in Ops |-> IF h \in MergeOps THEN MergeLen * VectorLimit + h
                            ELSE 0]
  /\ opPc = [h \in Ops |-> IF h \in MergeOps THEN "cont_count" ELSE "idle"]
  /\ opLoc = [h \in Ops |-> 0]
  /\ opRes = [h \in Ops |-> "none"]
  /\ iterOut = << 0 >>
  /\ vectors_created = MergeLen
  /\ erased = {}
  /\ sortPc = "start"
  /\ sort_iter_anchor = 0
  /\ last = 0
  /\ markPc = "idle"
  /\ lifePc = "alive"
  /\ iterPc = [it \in Iters |-> "idle"]
  /\ iterImmutable = [it \in Iters |-> FALSE]
  /\ iter_anchor = [it \in Iters |-> << >>]
  /\ iterAppended = [it \in Iters |-> FALSE]
  /\ iterStarted = [it \in Iters |-> {}]
  /\ iterSnapshot = [it \in Iters |-> {}]
  /\ iterKeys = [it \in Iters |-> << 0 >>]

NextMerge ==
  \/ NextContainerInsert
  \/ NextSortThread
  \/ SortThreadMerge
  \/ \E it \in Iters : ReaderFree(it) /\ GetIterator(it)
  \/ \E it \in Iters : InitIteratorLoad(it)
  \/ \E it \in Iters : InitIteratorPush(it)
  \/ \E it \in Iters : InitIteratorNotify(it)
  \/ \E it \in Iters : InitIteratorEmptyTail(it)
  \/ \E it \in Iters : IterateAnchors(it)

InitSpecMerge == InitMerge /\ WBMUnused /\ InitPicker /\ CollabUnused
  /\ InitiationUnused /\ SlotsUnused
  /\ Level0Unused /\ SelectUnused

SpecMerge == InitSpecMerge /\ [][NextMerge]_vars

\* the locks of the memtable: inserts, lookups, constructions of iterators,
\* the sort thread and mark_read_only together, after a first insert, of a
\* key greater than the keys to come, has returned
LockOps == { h \in Ops : h <= NLockInserts }
FirstInsert == NLockInserts + 1

InitLockThreads ==
  /\ InitLocks
  /\ n_buckets = 1
  /\ items_ = [b \in 0..(MaxBuckets - 1) |-> IF b = 0 THEN FirstInsert ELSE 0]
  /\ nextOf = [h \in Ops |-> 0]
  /\ spdb_vectors_ = << SpdbVectorAdd(NewSpdbVector(1), NKeys + 1) >>
  /\ num_elements_ = 1
  /\ immutable_ = FALSE
  /\ rwReaders = {}
  /\ rwWriter = 0
  /\ opKey = [h \in Ops |-> IF h = FirstInsert THEN NKeys + 1 ELSE 0]
  /\ opPc = [h \in Ops |-> IF h = FirstInsert THEN "done" ELSE "idle"]
  /\ opLoc = [h \in Ops |-> 0]
  /\ opRes = [h \in Ops |-> IF h = FirstInsert THEN "true" ELSE "none"]
  /\ iterOut = << 0 >>
  /\ vectors_created = 1
  /\ erased = {}
  /\ sortPc = "start"
  /\ sort_iter_anchor = 0
  /\ last = 0
  /\ markPc = "idle"
  /\ lifePc = "alive"
  /\ iterPc = [it \in Iters |-> "idle"]
  /\ iterImmutable = [it \in Iters |-> FALSE]
  /\ iter_anchor = [it \in Iters |-> << >>]
  /\ iterAppended = [it \in Iters |-> FALSE]
  /\ iterStarted = [it \in Iters |-> {}]
  /\ iterSnapshot = [it \in Iters |-> {}]
  /\ iterKeys = [it \in Iters |-> << 0 >>]
LockIters == { it \in Iters : it <= NLockIters }

NextLocks ==
  \/ \E h \in LockOps, k \in Keys : InOrder(opPc, h) /\ Allocate(h, k)
  \/ NextInsertKey
  \/ NextLookup
  \/ NextMarkReadOnly
  \/ NextSortThread
  \/ \E it \in LockIters : GetIterator(it)
  \/ \E it \in LockIters : InitIteratorLoad(it)
  \/ \E it \in LockIters : InitIteratorImmutable(it)
  \/ \E it \in LockIters : InitIteratorPush(it)
  \/ \E it \in LockIters : InitIteratorNotify(it)

InitSpecLocks == InitLockThreads /\ WBMUnused /\ InitPicker /\ CollabUnused
  /\ InitiationUnused /\ SlotsUnused
  /\ Level0Unused /\ SelectUnused

SpecLocks == InitSpecLocks /\ [][NextLocks]_vars

NextAppend ==
  \/ NextContainerInsert
  \/ NextSortThread

InitSpecAppend == InitAppend /\ WBMUnused /\ InitPicker /\ CollabUnused
  /\ InitiationUnused /\ SlotsUnused
  /\ Level0Unused /\ SelectUnused

SpecAppend == InitSpecAppend /\ [][NextAppend]_vars

\* the picker: flushes, PickCompaction calls and completions
InitSpecPicker == InitPicker /\ WBMUnused /\ MemUnused /\ CollabUnused
  /\ InitiationUnused /\ SlotsUnused
  /\ Level0Unused /\ SelectUnused

SpecPicker == InitSpecPicker /\ [][NextPicker]_vars

\* the picker with manual compactions and NeedsCompaction calls; the engine
\* holds the DB mutex from the call until it has used the answer
NextNeedsCompaction ==
  \/ \E in \in NeedsInputs : NeedsCompactionCall(in)
  \/ NeedsCompactionReturn

NextNeeds ==
  \/ needsPc = "idle" /\ (NextPicker \/ ManualCompaction)
  \/ NextNeedsCompaction

SpecNeeds == InitSpecPicker /\ [][NextNeeds]_vars

\* the picker of a database that is opened with files: every pattern of
\* empty and non-empty levels, nothing running, the picker not yet
\* initialised
InitLayout ==
  /\ levelNonEmpty \in [Levels -> BOOLEAN]
  /\ compactions_in_progress_ = << >>
  /\ curNumOfHyperLevels_ = 0
  /\ prevSubCompaction_ = [h \in HyperLevels |-> PrevPlaceEmpty]
  /\ needsPc = "idle"
  /\ needsIn = QuietInputs
  /\ needsRet = FALSE
  /\ Constructed(QuietOptions, AllLevels)

InitSpecLayout ==
  InitLayout /\ WBMUnused /\ MemUnused /\ CollabUnused
  /\ InitiationUnused /\ SlotsUnused
  /\ Level0Unused /\ SelectUnused

SpecLayout == InitSpecLayout /\ [][NextPicker]_vars

\* concurrent Add calls on one SpdbVector, then its Sort
InitSpecSlots ==
  /\ InitSlots
  /\ Level0Unused /\ SelectUnused
  /\ WBMUnused /\ MemUnused /\ InitPicker /\ CollabUnused
  /\ InitInitiation(0, 0, 0)

SpecSlots == InitSpecSlots /\ [][NextSlots]_vars

\* PickCompaction with the files of level 0 counted, on a database opened
\* with files in level 0: every pattern of empty and non-empty levels in
\* hyper level 1, the levels of hyper level 2 after its first two alike,
\* and the options that give every merge width and a trigger below and
\* above it
Level0Options ==
  { options \in CfOptions :
      /\ options.write_buffer_size = 1
      /\ options.min_merge_width \in s_minLevelsToMerge..s_maxLevelsToMerge
      /\ options.level0_file_num_compaction_trigger
           \in {1, s_maxLevelsToMerge + 1} }

InitSpecLevel0 ==
  /\ \E options \in Level0Options :
       /\ levelNonEmpty \in [Levels -> BOOLEAN]
       /\ levelNonEmpty[0]
       /\ \A level \in (FirstLevelInHyper(2) + 2)..LastLevelInHyper(2) :
            levelNonEmpty[level] = levelNonEmpty[FirstLevelInHyper(2) + 1]
       /\ compactions_in_progress_ = << >>
       /\ curNumOfHyperLevels_ = 0
       /\ prevSubCompaction_ = [h \in HyperLevels |-> PrevPlaceEmpty]
       /\ needsPc = "idle"
       /\ needsIn = QuietInputs
       /\ needsRet = FALSE
       /\ Constructed(options, AllLevels)
  /\ InitLevel0
  /\ WBMUnused /\ MemUnused /\ CollabUnused /\ InitiationUnused
  /\ SlotsUnused /\ SelectUnused

SpecLevel0 == InitSpecLevel0 /\ [][PickCompactionLevel0]_vars

\* the end of SelectNBuffers over the vectors a selection can leave
InitSpecSelect ==
  /\ InitSelect
  /\ WBMUnused /\ MemUnused /\ InitPicker /\ CollabUnused
  /\ InitiationUnused /\ SlotsUnused /\ Level0Unused

SpecSelect == InitSpecSelect /\ [][SelectNBuffersTail]_vars

\* InitCf over the options of a column family: the first PickCompaction of
\* a picker
InitSpecInitCf ==
  /\ \E options \in CfOptions, levels \in NumLevels :
       InitPickerWith(options, levels)
  /\ WBMUnused /\ MemUnused /\ CollabUnused /\ InitiationUnused /\ SlotsUnused
  /\ Level0Unused /\ SelectUnused

SpecInitCf == InitSpecInitCf /\ [][PickCompaction]_vars

\* the picker of a column family with few or many levels
InitSpecNumLevels ==
  /\ \E levels \in NumLevels : InitPickerWith(QuietOptions, levels)
  /\ WBMUnused /\ MemUnused /\ CollabUnused /\ InitiationUnused /\ SlotsUnused
  /\ Level0Unused /\ SelectUnused

SpecNumLevels == InitSpecNumLevels /\ [][NextPicker]_vars

\* the pinning policy: CheckPin calls on a configured policy
InitSpecPolicy ==
  InitPolicy /\ TableUnused /\ WBMUnused /\ MemUnused /\ InitPicker
  /\ InitiationUnused /\ SlotsUnused
  /\ Level0Unused /\ SelectUnused

SpecPolicy == InitSpecPolicy /\ [][NextPolicy]_vars

\* the adaptive table factory: reader and builder calls
InitSpecTable ==
  InitTable /\ PolicyUnused /\ WBMUnused /\ MemUnused /\ InitPicker
  /\ InitiationUnused /\ SlotsUnused
  /\ Level0Unused /\ SelectUnused

SpecTable == InitSpecTable /\ [][NextTable]_vars

Init ==
  /\ InitWBM /\ InitMem /\ InitPicker /\ InitPolicy /\ InitTable
  /\ \E initiators \in 0..MaxInitiators, step \in 0..MaxFlushStep,
        k \in 0..1 : InitInitiation(initiators, step, k)
  /\ InitSlots
  /\ InitLevel0
  /\ InitSelect

Next ==
  \/ NextWBM \/ NextStall \/ NextSetBufferSize \/ NextShouldFlush
  \/ NextMem \/ NextSortThread \/ SortThreadMerge \/ NextIterator \/ NextDestroy
  \/ NextPicker \/ ManualCompaction \/ NextNeedsCompaction
  \/ NextPolicy \/ NextTable
  \/ NextInitiation
  \/ NextSlots
  \/ PickCompactionLevel0
  \/ SelectNBuffersTail

Spec == Init /\ [][Next]_vars

(***************************************************************************)
(* Claims about the Write Buffer Manager, checked under SpecWBM.           *)
(***************************************************************************)
AllCountersZero ==
  memory_used_ = 0 /\ memory_inactive_ = 0 /\ memory_being_freed_ = 0

\* C1: while the WBM is enabled and every caller keeps the call order
\* (reserve, schedule_free, free_begin, free), every snapshot of the
\* counters has 0 <= being_freed <= inactive <= used.  The claim covers
\* free_abort as well; the formula leaves the runs with an abort out, so
\* that what refutes it is a run of the four plain calls.
C1_CountersOrdered ==
  (enabled /\ \A i \in Items : aborts[i] = 0) =>
     /\ 0 <= memory_being_freed_
     /\ memory_being_freed_ <= memory_inactive_
     /\ memory_inactive_ <= memory_used_

\* C4: once no release is left to happen and used < buffer_size, no writer
\* that called BeginWriteStall is still parked on a handle nobody signaled.
C4_NoHandleParkedForever ==
  ( /\ enabled /\ allow_stall_
    /\ \A i \in Items : itemPc[i] = "freed"
    /\ memory_used_ < buffer_size_ )
  => \A h \in Handles : writerPc[h] = "blocked" => signals[h] > 0

\* C6 (as stated): ShouldStall() is true exactly when allow_stall is
\* configured and (stall_active or used >= buffer_size).
C6_ShouldStallAsStated ==
  ShouldStall <=>
    (allow_stall_ /\ (stall_active_ \/ memory_used_ >= buffer_size_))

\* C6 (amended): ShouldStall() is true exactly when allow_stall is
\* configured, buffer_size > 0 and (stall_active or used >= buffer_size);
\* with buffer_size = 0 it is false in every state.
C6_ShouldStall ==
  /\ ShouldStall <=>
       ( /\ allow_stall_
         /\ buffer_size_ > 0
         /\ (stall_active_ \/ memory_used_ >= buffer_size_) )
  /\ (buffer_size_ = 0 => ~ShouldStall)

\* a stall that is still active although used has dropped below buffer_size
C6_Witness ==
  ShouldStall /\ stall_active_ /\ memory_used_ < buffer_size_

\* C7: a WBM whose buffer_size is 0 answers ShouldFlush() with true in
\* every state.
C7_DisabledShouldFlush == (buffer_size_ = 0) => ShouldFlush

\* C8: when every chunk that was reserved has gone through schedule_free,
\* free_begin and free (none of them aborted), the three counters are 0.
C8_BalancedRoundTrip ==
  ( /\ \A i \in Items : itemPc[i] \in {"none", "free_b", "freed"}
    /\ \A i \in Items : aborts[i] = 0 )
  => AllCountersZero

C8_Witness ==
  /\ UsedMaintained
  /\ \A i \in Items : itemPc[i] = "freed" /\ aborts[i] = 0

\* C9: a chunk that went reserve, schedule_free, free_begin, free_abort,
\* free_begin, free leaves the counters where a free right after the first
\* free_begin leaves them: with no other chunk in use, all at 0.
C9_AbortRoundTrip ==
  \A i \in Items :
    ( /\ rebegun[i]
      /\ itemPc[i] \in {"free_b", "freed"}
      /\ \A j \in Items \ {i} : itemPc[j] = "none" )
    => AllCountersZero

C11_RetunedAtomically ==
  /\ (flushPc = "loaded_size" /\ was_enabled = enabled) =>
        (local_limit = (local_size * 7) \div 8)
  /\ (setPc = "done") => (mutable_limit_ = (new_size * 7) \div 8)

\* C12: set_buffer_size(n) may be called with any n in any state, the
\* calls that switch the WBM between enabled and disabled included, and no
\* assertion of the WBM fails.
C12_NoAssertionFails == setPc # "assert_failed"

(***************************************************************************)
(* Claims about the memtable, checked under SpecMem.                       *)
(***************************************************************************)
\* the keys whose InsertKey returned true
InsertedKeys == { opKey[h] : h \in { g \in Ops : opRes[g] = "true" } }

\* the keys whose SpdbHashTable::Add returned true, InsertKey returned or not
HashAddedKeys ==
  { opKey[h] : h \in { g \in Ops : opPc[g] \in {"cont_count", "cont_rlock",
                                               "cont_radd", "cont_wlock",
                                               "cont_wadd", "cont_notify"}
                                    \/ opRes[g] = "true" } }

StrictlyAscending(s) ==
  \A n \in 1..(Len(s) - 1) : Compare(s[n], s[n + 1]) < 0

\* C2: an iterator obtained after all inserts have returned and
\* mark_read_only has been called enumerates exactly the keys whose insert
\* returned true, each once, in strictly ascending comparator order.
C2_IteratorEnumeratesInserted ==
  (iterOut # << 0 >>) =>
    /\ StrictlyAscending(iterOut)
    /\ SeqToSet(iterOut) = InsertedKeys

\* C3: for every key k, contains(k) answers true when an insert of k has
\* returned true, and answers true only if the hash table accepted an insert
\* of k; the answer is the one a caller gets that finds the mutex of k free.
C3_ContainsIffInserted ==
  \A k \in Keys :
    ~MutexHeld(MutexOf(k)) =>
      /\ (k \in InsertedKeys) => Contains(k)
      /\ Contains(k) => (k \in HashAddedKeys)

\* the handles SpdbVectorContainer::Insert has counted, and those whose key
\* it has put into a vector
CountedHandles ==
  { h \in Ops : opPc[h] \in {"cont_rlock", "cont_radd", "cont_wlock",
                             "cont_wadd", "cont_notify"}
                  \/ opRes[h] = "true" }

AddedHandles ==
  { h \in Ops : opPc[h] = "cont_notify" \/ opRes[h] = "true" }

\* the handle is in a bucket list
Linked(h) ==
  \/ \E b \in 0..(MaxBuckets - 1) : items_[b] = h
  \/ \E g \in Ops : nextOf[g] = h

RECURSIVE SumOfSizes(_)
SumOfSizes(vs) ==
  IF vs = << >> THEN 0 ELSE Len(Head(vs).items) + SumOfSizes(Tail(vs))

Occurrences(s, key) == Cardinality({ n \in 1..Len(s) : s[n] = key })

\* C13: an insert of a handle whose key compares equal to a key already
\* installed returns false and changes nothing: the handle is in no bucket
\* list, the vectors hold the keys of the accepted handles only and the
\* element count counts those handles only; contains(k) stays true and an
\* iterator yields k exactly once.
C13_DuplicateInsertChangesNothing ==
  /\ \A h \in Ops :
       opRes[h] = "false" =>
         /\ ~Linked(h) /\ nextOf[h] = 0
         /\ ~MutexHeld(MutexOf(opKey[h])) => Contains(opKey[h])
         /\ (iterOut # << 0 >>) => Occurrences(iterOut, opKey[h]) = 1
  /\ num_elements_ = Cardinality(CountedHandles)
  /\ SumOfSizes(spdb_vectors_) = Cardinality(AddedHandles)

\* C20: for every bucket count, two keys of one bucket have the same mutex
\* (the mutex vector has 1024 entries), so that no two threads are inside
\* the linked list of one bucket at the same time.
C20_BucketMutualExclusion ==
  /\ \A g, h \in Ops :
       (opKey[g] # 0 /\ opKey[h] # 0
          /\ BucketOf(opKey[g]) = BucketOf(opKey[h])) =>
         MutexOf(opKey[g]) = MutexOf(opKey[h])
  /\ \A g, h \in Ops :
       (g # h /\ InHashAdd(g) /\ InHashAdd(h)) =>
         BucketOf(opKey[g]) # BucketOf(opKey[h])


\* the keys of a bucket's list from handle k on, at most fuel handles
RECURSIVE BucketKeysFrom(_, _)
BucketKeysFrom(k, fuel) ==
  IF k = 0 \/ fuel = 0 THEN << >>
  ELSE << opKey[k] >> \o BucketKeysFrom(nextOf[k], fuel - 1)

\* C26: in every reachable state, whatever inserts have run and are
\* running, the keys along every bucket's list are strictly ascending in
\* comparator order.
C26_BucketListsAscending ==
  \A b \in 0..(n_buckets - 1) :
    StrictlyAscending(BucketKeysFrom(items_[b], NInserts + 1))

(***************************************************************************)
(* Claims about the threads of the memtable, checked under SpecMemThreads. *)
(***************************************************************************)
\* C14: after mark_read_only() the sort thread leaves its loop and
\* terminates in every interleaving, so that destroying the memtable never
\* waits forever: the sort thread is never left waiting on its condition
\* variable when the destructor, whose notify_one was the last one, joins
\* it.
C14_SortThreadTerminates == ~(lifePc = "join" /\ sortPc = "wait")

\* the iterators constructed on a memtable that was mutable and not empty
MutableIterators ==
  { it \in Iters : iterPc[it] \in {"built", "iterated"} /\ ~iterImmutable[it] }

TailId == spdb_vectors_[Len(spdb_vectors_)].id

\* C17 as stated: constructing an iterator on a mutable, non-empty memtable
\* appends a new empty tail vector.  The formula leaves out the iterator
\* that got no anchor.
C17_AlwaysAppendsTail ==
  \A it \in MutableIterators : iter_anchor[it] # << >> => iterAppended[it]

\* C17: constructing an iterator on a mutable, non-empty memtable appends a
\* new empty tail vector when the last vector holds a key, and the iterator
\* covers the vectors that precede the tail (the new one, or the last
\* vector when that was empty): no vector it covers is the tail, none
\* receives a further add, and a key whose insert starts after the
\* construction returned is never returned by the iterator.
C17_IteratorSnapshot ==
  \A it \in MutableIterators :
    /\ iterAppended[it] =>
         /\ iter_anchor[it] # << >>
         /\ ~SpdbVectorIsEmpty(VecOf(iter_anchor[it][Len(iter_anchor[it])]))
    /\ \A n \in 1..Len(iter_anchor[it]) : iter_anchor[it][n] # TailId
    /\ ContentsOf(iter_anchor[it]) = iterSnapshot[it]
    /\ (iterPc[it] = "iterated") =>
         SeqToSet(iterKeys[it]) \subseteq iterStarted[it]

\* an iterator that pushed a new tail has returned its keys, and an insert
\* that started later has put another key into the container
C17_Witness ==
  \E it \in MutableIterators :
    /\ iterPc[it] = "iterated"
    /\ iterAppended[it]
    /\ iterKeys[it] # << >>
    /\ \E h \in Ops : opRes[h] = "true" /\ opKey[h] \notin iterStarted[it]

(***************************************************************************)
(* Claims about the compaction picker, checked under SpecPicker.           *)
(***************************************************************************)
\* C5: over any sequence of PickCompaction calls and completions, no two
\* compactions in progress at the same time have an input level in common,
\* in whichever hyper level that level lies.
C5_NoSharedInputLevel ==
  \A n, m \in InProgress :
    n < m =>
      compactions_in_progress_[n].inputs
        \cap compactions_in_progress_[m].inputs = {}

\* two level compactions run at once, the upper one writing into the hyper
\* level the lower one reads
C5_Witness ==
  \E n, m \in InProgress :
    /\ compactions_in_progress_[n].reason = "kLevelMaxLevelSize"
    /\ compactions_in_progress_[m].reason = "kLevelMaxLevelSize"
    /\ GetHyperLevelNum(compactions_in_progress_[n].start_level) + 1
         = GetHyperLevelNum(compactions_in_progress_[m].start_level)
    /\ compactions_in_progress_[n].output_level
         \in compactions_in_progress_[n].inputs

\* the level immediately below LastLevelInHyper(H) has no file
LevelBelowIsEmpty(hyperLevelNum) ==
  ~levelNonEmpty[LastLevelInHyper(hyperLevelNum) + 1]

\* the sub-compaction cursor of hyper level H is empty
CursorIsEmpty(hyperLevelNum) ==
  IsPrevPlaceEmpty(prevSubCompaction_[hyperLevelNum])

\* the answer of MayStartLevelCompaction(H) in the state at hand
MayStartNow(hyperLevelNum) ==
  MayStartLevelCompaction(hyperLevelNum, curNumOfHyperLevels_,
                          prevSubCompaction_)

\* C31 (as stated): MayStartLevelCompaction(H) is true if and only if hyper
\* level H has no running compaction and, when H is not the last hyper
\* level, either the sub-compaction cursor of H is empty or the level
\* immediately below LastLevelInHyper(H) is empty.
C31_MayStartAsStated ==
  curNumOfHyperLevels_ # 0 =>
    \A hyperLevelNum \in 0..curNumOfHyperLevels_ :
      MayStartNow(hyperLevelNum) <=>
        /\ nCompactions(hyperLevelNum, curNumOfHyperLevels_) = 0
        /\ hyperLevelNum # curNumOfHyperLevels_ =>
             CursorIsEmpty(hyperLevelNum) \/ LevelBelowIsEmpty(hyperLevelNum)

\* C31 (amended): MayStartLevelCompaction(H) is true if and only if hyper
\* level H has no running compaction and, when H is not the last hyper
\* level, either the sub-compaction cursor of H is not empty or the level
\* immediately below LastLevelInHyper(H) is empty.
C31_MayStartLevelCompaction ==
  curNumOfHyperLevels_ # 0 =>
    \A hyperLevelNum \in 0..curNumOfHyperLevels_ :
      MayStartNow(hyperLevelNum) <=>
        /\ nCompactions(hyperLevelNum, curNumOfHyperLevels_) = 0
        /\ hyperLevelNum # curNumOfHyperLevels_ =>
             ~CursorIsEmpty(hyperLevelNum)
               \/ LevelBelowIsEmpty(hyperLevelNum)

\* a hyper level before the last one, idle, whose cursor is set while the
\* level below its last level holds files: its compaction may start
C31_Witness ==
  /\ curNumOfHyperLevels_ # 0
  /\ \E hyperLevelNum \in 1..(curNumOfHyperLevels_ - 1) :
       /\ nCompactions(hyperLevelNum, curNumOfHyperLevels_) = 0
       /\ ~CursorIsEmpty(hyperLevelNum)
       /\ ~LevelBelowIsEmpty(hyperLevelNum)
       /\ MayStartNow(hyperLevelNum)

\* rearrange is permitted and needed in hyper level H
RearangeWanted(hyperLevelNum) ==
  /\ MayRunRearange(hyperLevelNum, curNumOfHyperLevels_)
  /\ LevelNeedsRearange(hyperLevelNum, FirstLevelInHyper(hyperLevelNum))

WantedHyperLevels ==
  { hyperLevelNum \in 1..curNumOfHyperLevels_ :
      RearangeWanted(hyperLevelNum) }

\* what PickCompaction returns from its loop "rearange first" in the state
\* at hand (nullptr: it goes on to the other builders)
PickedByRearangeFirst ==
  RearangeFirst(1, curNumOfHyperLevels_, prevSubCompaction_).ret

\* the levels of hyper level H
LevelsOfHyper(hyperLevelNum) ==
  FirstLevelInHyper(hyperLevelNum)..LastLevelInHyper(hyperLevelNum)

\* the level the loop "rearange first" tests hyper level H from: its first
\* level, or the level after the output level of the cursor of H - 1 while
\* H - 1 has a compaction in progress
RearangeStartLevel(hyperLevelNum) ==
  IF nCompactions(hyperLevelNum - 1, curNumOfHyperLevels_) = 0
  THEN FirstLevelInHyper(hyperLevelNum)
  ELSE prevSubCompaction_[hyperLevelNum - 1].outputLevel + 1

\* rearrange is permitted in H and needed from that level on
RearangeWantedFromStart(hyperLevelNum) ==
  /\ MayRunRearange(hyperLevelNum, curNumOfHyperLevels_)
  /\ LevelNeedsRearange(hyperLevelNum, RearangeStartLevel(hyperLevelNum))

WantedFromStart ==
  { hyperLevelNum \in 1..curNumOfHyperLevels_ :
      RearangeWantedFromStart(hyperLevelNum) }

\* C32 (as stated): in an initialized picker with no manual compaction in
\* progress, if
\* for some hyper level H in 1..cur both MayRunRearange(H) and
\* LevelNeedsRearange(H) hold, PickCompaction returns a trivial-move
\* rearrange compaction for the lowest such H, and never a promotion, L0,
\* level or coalescing compaction.
C32_RearangeComesFirstAsStated ==
  ( /\ curNumOfHyperLevels_ # 0
    /\ ~manualComapctionRunning
    /\ WantedHyperLevels # {} )
  => /\ PickedByRearangeFirst # NoCompaction
     /\ PickedByRearangeFirst.reason = kRearangeCompaction
     /\ PickedByRearangeFirst.output_level
          \in LevelsOfHyper(SetMin(WantedHyperLevels))
     /\ PickedByRearangeFirst.inputs
          \subseteq LevelsOfHyper(SetMin(WantedHyperLevels))

\* C32 (amended): in an initialized picker with no manual compaction in
\* progress, if for some hyper level H in 1..cur MayRunRearange(H) holds and
\* LevelNeedsRearange(H) holds for the levels of H after the output level
\* of the cursor of H - 1 while H - 1 has a compaction in progress (for all
\* levels of H otherwise), PickCompaction returns a trivial-move rearrange
\* compaction for the lowest such H, and never a promotion, L0, level or
\* coalescing compaction.
C32_RearangeComesFirstFromStart ==
  ( /\ curNumOfHyperLevels_ # 0
    /\ ~manualComapctionRunning
    /\ WantedFromStart # {} )
  => /\ PickedByRearangeFirst # NoCompaction
     /\ PickedByRearangeFirst.reason = kRearangeCompaction
     /\ PickedByRearangeFirst.output_level
          \in LevelsOfHyper(SetMin(WantedFromStart))
     /\ PickedByRearangeFirst.inputs
          \subseteq LevelsOfHyper(SetMin(WantedFromStart))

\* hyper level 2 is rearranged beside a compaction of hyper level 1 that
\* writes into it
C32_Witness ==
  /\ curNumOfHyperLevels_ >= 2
  /\ ~manualComapctionRunning
  /\ nCompactions(1, curNumOfHyperLevels_) > 0
  /\ WantedFromStart = {2}
  /\ PickedByRearangeFirst # NoCompaction

(***************************************************************************)
(* NeedsCompaction against PickCompaction, checked under SpecNeeds.        *)
(***************************************************************************)
\* what PickCompaction reads of the shape NeedsCompaction has read: the L0
\* file count is compared with the same trigger, and the last level with
\* many files has a run of small ones
PickInputsOf(in) ==
  [in EXCEPT !.l0Enough = in.l0Trigger, !.reduce = in.manyFiles]

\* what PickCompaction returns in this state for that shape
PickedFor(in) ==
  LET first == RearangeFirst(1, curNumOfHyperLevels_, prevSubCompaction_)
  IN IF first.ret # NoCompaction THEN first.ret
     ELSE PickAfterRearange(curNumOfHyperLevels_, first.prev,
                            PickInputsOf(in)).ret

\* C38: for every initialized picker state, set of running compactions
\* (none of them manual) and LSM shape, NeedsCompaction returns true if and
\* only if PickCompaction on that same state returns a compaction.
C38_NeedsAgreesWithPick ==
  ( /\ needsPc = "returned"
    /\ curNumOfHyperLevels_ # 0
    /\ ~manualComapctionRunning )
  => (needsRet <=> PickedFor(needsIn) # NoCompaction)

(***************************************************************************)
(* Claims about the compaction of level 0, checked under SpecLevel0.       *)
(***************************************************************************)
\* what PickCompaction returns in this state when it reads in
PickedWith(in) ==
  LET cur == IF curNumOfHyperLevels_ = 0 THEN InitCf
             ELSE curNumOfHyperLevels_
      first == RearangeFirst(1, cur, prevSubCompaction_)
  IN IF manualComapctionRunning THEN NoCompaction
     ELSE IF first.ret # NoCompaction THEN first.ret
     ELSE PickAfterRearange(cur, first.prev, in).ret

\* does a step of the picking order before level 0 return a compaction
EarlierStepPicks(in) ==
  LET cur == IF curNumOfHyperLevels_ = 0 THEN InitCf
             ELSE curNumOfHyperLevels_
      first == RearangeFirst(1, cur, prevSubCompaction_)
  IN \/ manualComapctionRunning
     \/ first.ret # NoCompaction
     \/ /\ MayRunCompaction(cur, cur)
        /\ ~rearangeRunning
        /\ CheckDbSizeGrows(cur, in)

Level0Running ==
  \E n \in InProgress : 0 \in compactions_in_progress_[n].inputs

HyperLevel1 == FirstLevelInHyper(1)..LastLevelInHyper(1)

\* the output level the claim names, and the one below the empty levels
\* that start hyper level 1
DeepestEmptyLevel ==
  IF \A level \in HyperLevel1 : levelNonEmpty[level]
  THEN -1
  ELSE SetMax({ level \in HyperLevel1 : ~levelNonEmpty[level] })

DeepestLeadingEmptyLevel ==
  SetMax({ level \in HyperLevel1 :
             \A above \in FirstLevelInHyper(1)..level :
               ~levelNonEmpty[above] })

FileCountAsStated(numFilesInL0) ==
  Min(numFilesInL0, (Multiplier0 * 3) \div 2)

\* C35 as stated: when level 0 holds at least the L0 trigger number of
\* files and no L0 compaction is running, PickCompaction returns a
\* compaction of min(number of L0 files, floor(multiplier[0] * 1.5)) files
\* of level 0 into the deepest empty level of hyper level 1.
C35_Level0PickAsStated ==
  \A numFilesInL0 \in 1..MaxL0Files :
    ( /\ levelNonEmpty[0]
      /\ numFilesInL0 >= l0_threshold
      /\ ~Level0Running )
    => /\ Level0InputFiles(numFilesInL0) = FileCountAsStated(numFilesInL0)
       /\ \A in \in PickInputsWith(numFilesInL0) :
            LET picked == PickedWith(in)
            IN /\ picked.reason = "kLevelL0FilesNum"
               /\ picked.inputs = {0}
               /\ picked.output_level = DeepestEmptyLevel

\* C35: when level 0 holds at least the L0 trigger number of files, no L0
\* compaction is running, no earlier step of the picking order returns a
\* compaction and the first level of hyper level 1 is empty, PickCompaction
\* returns a compaction of min(number of L0 files,
\* floor(multiplier[0] * 1.5)) files of level 0 into the deepest level of
\* hyper level 1 that has no non-empty level of hyper level 1 at or above
\* it; every level 0 compaction that was picked took that many files.
C35_Level0Pick ==
  /\ \A numFilesInL0 \in 1..MaxL0Files :
       ( /\ levelNonEmpty[0]
         /\ numFilesInL0 >= l0_threshold
         /\ ~Level0Running
         /\ ~levelNonEmpty[FirstLevelInHyper(1)] )
       => /\ Level0InputFiles(numFilesInL0)
               = FileCountAsStated(numFilesInL0)
          /\ \A in \in PickInputsWith(numFilesInL0) :
               LET picked == PickedWith(in)
               IN ~EarlierStepPicks(in)
                  => /\ picked.reason = "kLevelL0FilesNum"
                     /\ picked.inputs = {0}
                     /\ picked.output_level = DeepestLeadingEmptyLevel
  /\ l0Inputs # 0
       => /\ l0Files >= l0_threshold
          /\ l0Inputs = FileCountAsStated(l0Files)

\* PickCompaction has cut a level 0 compaction to floor(multiplier[0] * 1.5)
\* files and sent it above a non-empty level of hyper level 1
C35_Witness ==
  /\ l0Inputs # 0
  /\ l0Inputs < l0Files
  /\ \E n \in InProgress :
       /\ compactions_in_progress_[n].reason = "kLevelL0FilesNum"
       /\ compactions_in_progress_[n].output_level = DeepestLeadingEmptyLevel
       /\ DeepestLeadingEmptyLevel < LastLevelInHyper(1)

(***************************************************************************)
(* Claims about the trivial move of SelectNBuffers, checked under          *)
(* SpecSelect.                                                             *)
(***************************************************************************)
\* the source levels the selection took files from, and the files it found
\* in the output level
Contributed ==
  { n \in 1..(Len(selInputs) - 1) : selInputs[n].files > 0 }

OutputOverlaps == selInputs[Len(selInputs)].files > 0

\* C36: a level compaction built by SelectNBuffers is marked as a trivial
\* move if and only if exactly one source level contributed files to the
\* selection and no file of the output level overlaps the selected range;
\* when it is marked trivial, the inputs hold every file that was selected
\* from the source levels and no entry of the output level.
C36_TrivialMove ==
  selPc = "returned"
  => /\ trivial_compaction(selOut)
          <=> (Cardinality(Contributed) = 1 /\ ~OutputOverlaps)
     /\ trivial_compaction(selOut)
          => /\ \A n \in Contributed :
                  \E m \in 1..Len(selOut) : selOut[m] = selInputs[n]
             /\ \A m \in 1..Len(selOut) :
                  selOut[m].level # Len(selInputs)

(***************************************************************************)
(* Claims about SpdbVector::Add, checked under SpecSlots.                  *)
(***************************************************************************)
\* the threads whose Add has returned true
Succeeded == { t \in Adders : addPc[t] = "returned" /\ addRet[t] }

CountIn(items, key) == Cardinality({ n \in 1..Len(items) : items[n] = key })

\* C40: across concurrent Add calls on one vector of capacity VectorLimit,
\* every Add that returned true wrote a slot below the capacity that no
\* other Add wrote, at most VectorLimit Adds return true, and after Sort
\* the element count and the contents of the vector are exactly the keys
\* of the successful Adds.
C40_SortedVectorSlots ==
  /\ \A t \in Succeeded :
       /\ addLocation[t] < VectorLimit
       /\ \A u \in Succeeded \ {t} : addLocation[u] # addLocation[t]
       /\ ~vec.sorted_ => vec.items[addLocation[t] + 1] = addKey[t]
  /\ Cardinality(Succeeded) <= VectorLimit
  /\ vec.sorted_ =>
       /\ vec.n_elements_ = Cardinality(Succeeded)
       /\ Len(vec.items) = Cardinality(Succeeded)
       /\ \A key \in Keys \cup {NoKey} :
            CountIn(vec.items, key)
              = Cardinality({ t \in Succeeded : addKey[t] = key })

\* a full vector is sorted after one more Add has failed on it
C40_Witness ==
  /\ vec.sorted_
  /\ Cardinality(Succeeded) = VectorLimit
  /\ \E t \in Adders : addPc[t] = "returned" /\ ~addRet[t]

(***************************************************************************)
(* Claims about RearangeLevel, checked under SpecLayout: every pattern of  *)
(* empty and non-empty levels, and what the picker makes of it.            *)
(***************************************************************************)
\* the cursors as the loop "rearange first" hands them to RearangeLevel: the
\* cursor of an idle hyper level H - 1 has been reset
CallerPrev(hyperLevelNum) ==
  IF nCompactions(hyperLevelNum - 1, curNumOfHyperLevels_) = 0
  THEN [prevSubCompaction_ EXCEPT ![hyperLevelNum - 1] = PrevPlaceEmpty]
  ELSE prevSubCompaction_

EmptyLevelsOf(hyperLevelNum) ==
  { l \in LevelsOfHyper(hyperLevelNum) : ~levelNonEmpty[l] }

NonEmptyAbove(hyperLevelNum, level) ==
  { l \in LevelsOfHyper(hyperLevelNum) : l < level /\ levelNonEmpty[l] }

\* the cursor of H - 1 that RearangeLevel(H) reads is empty
CursorAboveIsEmpty(hyperLevelNum) ==
  IsPrevPlaceEmpty(CallerPrev(hyperLevelNum)[hyperLevelNum - 1])

\* what the claim says RearangeLevel returns for the levels of H
RearangeAsStated(hyperLevelNum, ret) ==
  LET empties == EmptyLevelsOf(hyperLevelNum) IN
    IF empties = {} THEN ret = NoCompaction
    ELSE IF NonEmptyAbove(hyperLevelNum, SetMax(empties)) = {}
    THEN ret = NoCompaction
    ELSE /\ ret # NoCompaction
         /\ ret.output_level = SetMax(empties)
         /\ ret.inputs = NonEmptyAbove(hyperLevelNum, SetMax(empties))
         /\ ret.is_trivial_move

\* C33 (as stated): RearangeLevel(H), for H >= 1 and every pattern of empty
\* and non-empty levels in H, returns a trivial-move compaction whose output
\* level is the deepest empty level of H and whose inputs are exactly the
\* non-empty levels of H above it, and returns none when no non-empty level
\* lies above the deepest empty level.
C33_RearangeLevelAsStated ==
  \A hyperLevelNum \in 1..curNumOfHyperLevels_ :
    ( /\ MayRunRearange(hyperLevelNum, curNumOfHyperLevels_)
      /\ \/ CursorAboveIsEmpty(hyperLevelNum)
         \/ RearangeWantedFromStart(hyperLevelNum) )
      => RearangeAsStated(hyperLevelNum,
                          RearangeLevel(hyperLevelNum,
                                        CallerPrev(hyperLevelNum)))

\* C33 (amended): RearangeLevel(H), for H >= 1 whose sub-compaction cursor
\* for H - 1 is empty and every pattern of empty and non-empty levels in H,
\* returns a trivial-move compaction whose output level is the deepest empty
\* level of H and whose inputs are exactly the non-empty levels of H above
\* it, and returns none when no non-empty level lies above the deepest
\* empty level.
C33_RearangeLevel ==
  \A hyperLevelNum \in 1..curNumOfHyperLevels_ :
    ( /\ MayRunRearange(hyperLevelNum, curNumOfHyperLevels_)
      /\ CursorAboveIsEmpty(hyperLevelNum) )
      => RearangeAsStated(hyperLevelNum,
                          RearangeLevel(hyperLevelNum,
                                        CallerPrev(hyperLevelNum)))

\* two non-empty levels with an empty level between them are carried down
\* to the deepest empty level of their hyper level
C33_Witness ==
  \E hyperLevelNum \in 1..curNumOfHyperLevels_ :
    /\ MayRunRearange(hyperLevelNum, curNumOfHyperLevels_)
    /\ CursorAboveIsEmpty(hyperLevelNum)
    /\ LET ret == RearangeLevel(hyperLevelNum, CallerPrev(hyperLevelNum))
       IN /\ ret # NoCompaction
          /\ Cardinality(ret.inputs) = 2
          /\ \E l \in LevelsOfHyper(hyperLevelNum) :
               /\ ~levelNonEmpty[l]
               /\ l > SetMin(ret.inputs)
               /\ l < SetMax(ret.inputs)
          /\ ret.output_level = LastLevelInHyper(hyperLevelNum)

\* the levels after the compaction RearangeLevel(H) returns has moved the
\* files of all its input levels into its output level
AfterRearange(hyperLevelNum) ==
  LET ret == RearangeLevel(hyperLevelNum, CallerPrev(hyperLevelNum))
  IN InstallCompaction(ret, ret.inputs)

\* C34: rearrange converges in one step: for every hyper level H >= 1 whose
\* sub-compaction cursor for H - 1 is empty and for which
\* LevelNeedsRearange(H) holds, RearangeLevel(H) returns a compaction, and
\* once the files of all its input levels are moved into its output level
\* LevelNeedsRearange(H) is false.
C34_RearangeConverges ==
  \A hyperLevelNum \in 1..curNumOfHyperLevels_ :
    ( /\ MayRunRearange(hyperLevelNum, curNumOfHyperLevels_)
      /\ CursorAboveIsEmpty(hyperLevelNum)
      /\ LevelNeedsRearange(hyperLevelNum,
                            FirstLevelInHyper(hyperLevelNum)) )
      => /\ RearangeLevel(hyperLevelNum, CallerPrev(hyperLevelNum))
              # NoCompaction
         /\ ~LevelNeedsRearangeIn(AfterRearange(hyperLevelNum),
                                  hyperLevelNum,
                                  FirstLevelInHyper(hyperLevelNum))

\* a rearrange into an empty level that is not the last of its hyper level
\* leaves the hyper level without a hole
C34_Witness ==
  \E hyperLevelNum \in 1..curNumOfHyperLevels_ :
    /\ MayRunRearange(hyperLevelNum, curNumOfHyperLevels_)
    /\ CursorAboveIsEmpty(hyperLevelNum)
    /\ LevelNeedsRearange(hyperLevelNum, FirstLevelInHyper(hyperLevelNum))
    /\ RearangeLevel(hyperLevelNum, CallerPrev(hyperLevelNum)).output_level
         < LastLevelInHyper(hyperLevelNum)
    /\ ~LevelNeedsRearangeIn(AfterRearange(hyperLevelNum), hyperLevelNum,
                             FirstLevelInHyper(hyperLevelNum))

(***************************************************************************)
(* Claims about InitCf, checked under SpecInitCf: every option value.      *)
(***************************************************************************)
\* the configured min_merge_width clamped into
\* [s_minLevelsToMerge, s_maxLevelsToMerge]
ClampedMult ==
  IF mutable_cf_options.min_merge_width < s_minLevelsToMerge
  THEN s_minLevelsToMerge
  ELSE IF mutable_cf_options.min_merge_width > s_maxLevelsToMerge
  THEN s_maxLevelsToMerge
  ELSE mutable_cf_options.min_merge_width

\* C37: after initialization, for every configured min_merge_width, every
\* multiplier_[H] equals M, the configured value clamped into
\* [s_minLevelsToMerge, s_maxLevelsToMerge], and sizeToCompact_[H] equals
\* write_buffer_size * M^(H+1), for every hyper level H the column family
\* can have.
C37_LayoutAfterInit ==
  curNumOfHyperLevels_ # 0
    => \A hyperLevelNum \in 0..maxNumHyperLevels_ :
         /\ multiplier_[hyperLevelNum] = ClampedMult
         /\ sizeToCompact_[hyperLevelNum]
              = mutable_cf_options.write_buffer_size
                  * ClampedMult ^ (hyperLevelNum + 1)

(***************************************************************************)
(* Claims about the number of hyper levels, checked under SpecNumLevels.   *)
(***************************************************************************)
\* C39: after any sequence of PickCompaction calls, promotions by
\* CheckDbSize included, curNumOfHyperLevels_ exceeds neither
\* maxNumHyperLevels_ nor s_maxNumHyperLevels.
C39_BoundedHyperLevels ==
  /\ curNumOfHyperLevels_ <= maxNumHyperLevels_
  /\ curNumOfHyperLevels_ <= s_maxNumHyperLevels

(***************************************************************************)
(* Claims about NeedsCompaction, checked under SpecNeeds.                  *)
(***************************************************************************)
\* C15: NeedsCompaction returns false in every picker state in which a
\* manual compaction is among the compactions in progress, whether or not
\* the picker has been initialized
C15_ManualForcesFalse ==
  (needsPc = "returned" /\ manualComapctionRunning) => ~needsRet

\* (ii) some hyper level needs rearrange and may run it
SomeLevelRearanges ==
  \E hyperLevelNum \in 0..curNumOfHyperLevels_ :
    /\ LevelNeedsRearange(hyperLevelNum, FirstLevelInHyper(hyperLevelNum))
    /\ MayRunRearange(hyperLevelNum, curNumOfHyperLevels_)

\* (iii) some hyper level needs a level compaction and may start it
SomeLevelCompacts ==
  \E hyperLevelNum \in 0..curNumOfHyperLevels_ :
    /\ NeedToRunLevelCompaction(hyperLevelNum, needsIn)
    /\ MayStartLevelCompaction(hyperLevelNum, curNumOfHyperLevels_,
                               prevSubCompaction_)

\* (iv) the last level holds more than max_open_files / 2 files
LastLevelHasManyFiles ==
  levelNonEmpty[LastLevel(curNumOfHyperLevels_)] /\ needsIn.manyFiles

\* C16: with no manual compaction in progress NeedsCompaction returns true
\* exactly when the picker was never initialized, or some hyper level needs
\* and may run a rearrange, or some hyper level needs and may start a level
\* compaction, or the last level holds more than max_open_files / 2 files
C16_NeedsCompactionSignals ==
  (needsPc = "returned" /\ ~manualComapctionRunning) =>
     (needsRet <=> \/ curNumOfHyperLevels_ = 0
                   \/ SomeLevelRearanges
                   \/ SomeLevelCompacts
                   \/ LastLevelHasManyFiles)

(***************************************************************************)
(* Claims about the pinning policy, checked under SpecPolicy.              *)
(***************************************************************************)
\* capacity * percent / 100 over the natural numbers
PinBucket(tpi) ==
  IF tpi.is_last_level_with_data /\ options_.last_level_with_data_percent > 0
  THEN (options_.capacity * options_.last_level_with_data_percent) \div 100
  ELSE IF tpi.level > 0 /\ options_.mid_percent > 0
  THEN (options_.capacity * options_.mid_percent) \div 100
  ELSE options_.capacity

\* C18: CheckPin admits the pin if and only if usage + size <= bucket, over
\* the natural numbers, where bucket is capacity * percent / 100 of the
\* percent the table's level selects, or capacity
C18_CheckPinBucket ==
  (pinPc = "returned") =>
     (pinRet <=> (pinArgs.usage + pinArgs.size <= PinBucket(pinArgs.tpi)))

(***************************************************************************)
(* Claims about the adaptive table factory, checked under SpecTable.       *)
(***************************************************************************)
PlainMagics == {"kPlainTableMagicNumber", "kLegacyPlainTableMagicNumber"}
BlockBasedMagics ==
  {"kBlockBasedTableMagicNumber", "kLegacyBlockBasedTableMagicNumber"}

ReaderCalled(factory) ==
  factoryCalls = << [factory |-> factory, method |-> "NewTableReader"] >>

\* C19: NewTableReader returns the footer error without calling a factory
\* when the footer cannot be read; otherwise it calls exactly one factory,
\* chosen by the magic number, and returns what it returns, or calls none
\* and returns NotSupported for any other magic number.  NewTableBuilder
\* calls the writer factory, which is the block-based one when none was given
C19_AdaptiveDispatch ==
  /\ (tablePc = "returned" /\ tableArgs.call = "NewTableReader") =>
       IF tableArgs.footer # "OK"
       THEN tableRet = tableArgs.footer /\ factoryCalls = << >>
       ELSE IF tableArgs.magic \in PlainMagics
       THEN ReaderCalled(plain_table_factory_) /\ tableRet = tableArgs.reader
       ELSE IF tableArgs.magic \in BlockBasedMagics
       THEN /\ ReaderCalled(block_based_table_factory_)
            /\ tableRet = tableArgs.reader
       ELSE IF tableArgs.magic = "kCuckooTableMagicNumber"
       THEN ReaderCalled(cuckoo_table_factory_) /\ tableRet = tableArgs.reader
       ELSE tableRet = "NotSupported" /\ factoryCalls = << >>
  /\ (tablePc = "returned" /\ tableArgs.call = "NewTableBuilder") =>
       factoryCalls = << [factory |-> table_factory_to_write_,
                          method |-> "NewTableBuilder"] >>
  /\ table_factory_to_write_ \notin {"to_write", "block_based", "plain"} =>
       table_factory_to_write_ = block_based_table_factory_

\* a legacy plain table was opened through the plain factory, which is not
\* the block-based one
C19_Witness ==
  /\ tablePc = "returned"
  /\ tableArgs.magic = "kLegacyPlainTableMagicNumber"
  /\ tableArgs.footer = "OK"
  /\ ReaderCalled(plain_table_factory_)
  /\ plain_table_factory_ # block_based_table_factory_

\* ---------------------------------------------------------------------
\* C21: a writer appends a vector only when the add to the tail still
\* fails under the write lock, so every vector before the tail is full;
\* the add into the vector it has just appended never fails; and the key
\* of every insert that the container has taken is in exactly one slot of
\* exactly one vector, while the key of an insert it has not taken yet is
\* in none.
SlotsOf(key) ==
  { p \in (1..Len(spdb_vectors_)) \X (1..VectorLimit) :
      /\ p[2] <= Len(spdb_vectors_[p[1]].items)
      /\ spdb_vectors_[p[1]].items[p[2]] = key }

ContainerTook(h) == opPc[h] \in {"cont_notify", "done"}

C21_AppendKeepsEveryKey ==
  /\ \A h \in Ops : opPc[h] # "assert_failed"
  /\ \A i \in 1..(Len(spdb_vectors_) - 1) :
       spdb_vectors_[i].n_elements_ >= VectorLimit
  /\ \A h \in Ops :
       Cardinality(SlotsOf(opKey[h])) = IF ContainerTook(h) THEN 1 ELSE 0

\* two writers lost the add to the first vector, one of them appended the
\* second vector and the other's retry under the write lock went into it
C21_Witness ==
  /\ \A h \in Ops : opPc[h] = "done"
  /\ Len(spdb_vectors_) = 2
  /\ spdb_vectors_[1].n_elements_ = VectorLimit + 2
  /\ Len(spdb_vectors_[2].items) = 2

(***************************************************************************)
(* Claims about the sorted vectors, checked under SpecMemThreads.          *)
(***************************************************************************)
TailVector == spdb_vectors_[Len(spdb_vectors_)]

\* no add has reached the vector since SpdbVector::Sort set sorted_: the
\* slots it took are the items, and the items are in comparator order
UntouchedSinceSort(v) ==
  /\ v.n_elements_ = Len(v.items)
  /\ v.items = StdSort(v.items)

\* C22 as stated: in every reachable state at most one vector has sorted =
\* false, and if one does it is the tail.
C22_OnlyTailUnsorted ==
  \A n \in 1..(Len(spdb_vectors_) - 1) : spdb_vectors_[n].sorted_

\* C22: in every reachable state of a mutable memtable the tail has sorted =
\* false, and a vector whose sorted is true is not the tail and has received
\* no add since it was sorted; a vector before the tail keeps sorted = false
\* until the sort thread or a seek sorts it.
C22_SortedIsBeforeTail ==
  /\ ~immutable_ => ~TailVector.sorted_
  /\ \A n \in 1..Len(spdb_vectors_) :
       spdb_vectors_[n].sorted_ => UntouchedSinceSort(spdb_vectors_[n])

\* the first vector is sorted, the second, which is not the tail, is not yet,
\* and the tail holds a key
C22_Witness ==
  /\ Len(spdb_vectors_) >= 3
  /\ spdb_vectors_[1].sorted_
  /\ ~spdb_vectors_[2].sorted_
  /\ ~SpdbVectorIsEmpty(spdb_vectors_[2])
  /\ ~SpdbVectorIsEmpty(TailVector)
  /\ ~immutable_

ReadOnlyAndTerminated == immutable_ /\ sortPc = "terminated"

\* C23: once the memtable is marked read-only and the sort thread has
\* terminated, the list of vectors never changes again, and every vector,
\* the last and any empty one included, has sorted = true.
C23_FrozenAndSortedWhenReadOnly ==
  /\ [][ReadOnlyAndTerminated =>
          IdsOf(spdb_vectors_') = IdsOf(spdb_vectors_)]_vars
  /\ [](ReadOnlyAndTerminated =>
          \A n \in 1..Len(spdb_vectors_) : spdb_vectors_[n].sorted_)

\* C24: every Seek and SeekBackword on a vector that holds keys runs after
\* sorted is true, so that assert(sorted_) holds, and no add changes the
\* vector afterwards: after an iterator has sought its vectors, each of them
\* that holds keys is sorted, untouched since, and holds only keys the
\* iterator has returned.  This holds for the iterator of a mutable and of
\* a read-only memtable, beside the inserts and the sort thread.
C24_SeekOnSortedVector ==
  \A it \in Iters :
    iterPc[it] = "iterated" =>
      \A n \in 1..Len(iter_anchor[it]) :
        LET v == VecOf(iter_anchor[it][n]) IN
          /\ SeqToSet(v.items) \subseteq SeqToSet(iterKeys[it])
          /\ ~SpdbVectorIsEmpty(v) => v.sorted_ /\ UntouchedSinceSort(v)

\* an iterator of the mutable memtable has sought a vector, and an insert
\* that started later has put its key into the tail while the sort thread
\* was running
C24_Witness ==
  \E it \in Iters :
    /\ iterPc[it] = "iterated"
    /\ ~iterImmutable[it]
    /\ iterKeys[it] # << >>
    /\ ~SpdbVectorIsEmpty(TailVector)
    /\ sortPc \in {"read_last", "sort", "merge"}

(***************************************************************************)
(* Claims about the merges, checked under SpecMerge.                       *)
(***************************************************************************)
\* the keys of the vectors at the positions from .. to - 1, in comparator
\* order
RECURSIVE KeysOfRun(_, _)
KeysOfRun(from, to) ==
  IF from >= to THEN << >>
  ELSE StdSort(spdb_vectors_[from].items \o KeysOfRun(from + 1, to))

\* TryMergeVectors has chosen the vectors Merge is called with
MergeChosen == sortPc = "merge" /\ sortPc' = "merging"

\* Merge replaces the vectors under the write lock
MergeReplaces == sortPc = "merging" /\ sortPc' = "wait"

\* C25: each merge replaces a run of at least 2 and at most
\* kMergedVectorsMax consecutive sealed vectors by one sealed vector that
\* holds exactly the keys of the run in comparator order; the vector that
\* was the tail when the sort thread read it, and so the tail when the run
\* is chosen and when it is replaced, is not in the run; the vectors outside
\* the run are left as they are, so that the keys reachable through the
\* container are the same multiset before and after, beside the inserts and
\* the constructions of iterators.
C25_MergeReplacesRun ==
  [][/\ MergeChosen =>
          LET start == PosOf(sort_iter_anchor')
              last_ == PosOf(last')
          IN  /\ last_ - start >= 2
              /\ last_ - start <= kMergedVectorsMax
              /\ last_ <= PosOf(last)
              /\ last_ <= Len(spdb_vectors_)
              /\ \A n \in start..(last_ - 1) : spdb_vectors_[n].sorted_
     /\ MergeReplaces =>
          LET start == PosOf(sort_iter_anchor)
              last_ == PosOf(last)
              merged == spdb_vectors_'[start]
          IN  /\ last_ - start >= 2
              /\ last_ <= Len(spdb_vectors_)
              /\ \A n \in start..(last_ - 1) : spdb_vectors_[n].sorted_
              /\ merged.sorted_
              /\ merged.items = KeysOfRun(start, last_)
              /\ merged.n_elements_ = Len(merged.items)
              /\ Len(spdb_vectors_') = Len(spdb_vectors_) - (last_ - start) + 1
              /\ SubSeq(spdb_vectors_', 1, start - 1) =
                   SubSeq(spdb_vectors_, 1, start - 1)
              /\ SubSeq(spdb_vectors_', start + 1, Len(spdb_vectors_')) =
                   SubSeq(spdb_vectors_, last_, Len(spdb_vectors_))]_vars

\* a merge has replaced more than VectorLimit vectors by one, an insert has
\* put a key into the tail and an iterator has been constructed meanwhile
C25_Witness ==
  /\ \E n \in 1..(Len(spdb_vectors_) - 1) :
       /\ spdb_vectors_[n].id > MergeLen
       /\ spdb_vectors_[n].sorted_
       /\ Len(spdb_vectors_[n].items) > VectorLimit
  /\ \E h \in Ops : opRes[h] = "true"
  /\ \E it \in Iters : iterPc[it] \in {"built", "iterated"}

(***************************************************************************)
(* Claims about the locks of the memtable, checked under SpecLocks.        *)
(***************************************************************************)
\* the threads: the inserts, the lookups, the readers that construct an
\* iterator, and the sort thread
InsertThread(h) == << "insert", h >>
LookupThread(l) == << "lookup", l >>
IterThread(it) == << "iterator", it >>
TheSortThread == << "sort", 0 >>

\* the threads that hold spdb_vectors_rwlock_, shared or exclusively
ContainerLockHolders ==
  { InsertThread(h) : h \in { g \in Ops : g \in rwReaders \/ g = rwWriter } }

\* the threads whose MutexLock holds the mutex m
MutexHolders(m) ==
  { InsertThread(h) : h \in { g \in Ops : opMutex[g] = m } }
    \cup { LookupThread(l) : l \in { j \in Lookups : lkMutex[j] = m } }

\* the threads that are at the acquisition of spdb_vectors_rwlock_, shared
\* and exclusive
AtReadLock ==
  { InsertThread(h) : h \in { g \in Ops : opPc[g] = "cont_rlock" } }
    \cup (IF sortPc = "read_last" THEN { TheSortThread } ELSE {})

AtWriteLock ==
  { InsertThread(h) : h \in { g \in Ops : opPc[g] = "cont_wlock" } }
    \cup { IterThread(it) :
             it \in { j \in Iters : iterPc[j] = "init" /\ ~iterImmutable[j] } }
    \cup (IF sortPc = "merging" THEN { TheSortThread } ELSE {})

\* the threads that are at the acquisition of the mutex m
AtMutex(m) ==
  { InsertThread(h) :
      h \in { g \in Ops : opPc[g] = "allocated" /\ MutexOf(opKey[g]) = m } }
    \cup { LookupThread(l) :
             l \in { j \in Lookups : /\ lkPc[j] \in {"contains_lock", "get_lock"}
                                     /\ MutexOf(lkKey[j]) = m } }

UsedMutexes == { MutexOf(k) : k \in Keys }

\* the threads that wait for a lock another thread holds
BlockedOnContainerLock ==
  { t \in AtReadLock : rwWriter # 0 }
    \cup { t \in AtWriteLock : rwWriter # 0 \/ rwReaders # {} }

BlockedOnMutex(m) == { t \in AtMutex(m) : MutexHeld(m) }

BlockedOnLock ==
  BlockedOnContainerLock \cup UNION { BlockedOnMutex(m) : m \in UsedMutexes }

AddsPendingFlush == num_flushes_to_initiate_' > num_flushes_to_initiate_

\* C28: on every reevaluation the WBM increments num_flushes_to_initiate
\* only in a state where used - being_freed >= additional_flush_step_size/2,
\* used >= additional_flush_initiation_size and num_running_flushes +
\* num_flushes_to_initiate < max_num_parallel_flushes all hold, used being
\* the value the reevaluation was given and the difference the one of the
\* numbers; it never adds a pending flush when running + pending has
\* reached max_num_parallel_flushes.
C28_PendingOnlyWhenDesiredAndAllowed ==
  [][AddsPendingFlush =>
       /\ curr_memory_used' - memory_being_freed_
            >= additional_flush_step_size_ \div 2
       /\ curr_memory_used' >= additional_flush_initiation_size_
       /\ num_running_flushes_' + num_flushes_to_initiate_
            < max_num_parallel_flushes]_vars

\* a step in which the thread calls the callback of an initiator
CallsInitiator == initPc = "call" /\ calls' # calls

\* the thread is back to waiting after every callback declined
EveryCallbackDeclined ==
  initPc = "wait" /\ ~was_flush_initiated /\ calls # << >>

\* the calls for one pending flush follow the registration order modulo
\* the number of initiators, no initiator twice, and the cursor is on the
\* initiator after the last one called
CalledRoundRobin ==
  /\ \A j \in 1..Len(calls) - 1 :
        calls[j + 1] = (calls[j] + 1) % num_initiators_
  /\ \A j, k \in 1..Len(calls) : calls[j] = calls[k] => j = k
  /\ calls # << >> =>
       next_candidate_initiator_idx_ =
         (calls[Len(calls)] + 1) % num_initiators_

C30_NoWrapInFlushDesired == loaded_being_freed <= curr_memory_used

=============================================================================
